---- MODULE Spec2Model ----
(***************************************************************************)
(* goder: the agent orchestration loop (internal/llm/agent), the           *)
(* permission gate (internal/permission) with the TUI side that answers    *)
(* its requests, and the OpenAI stream adapters (internal/llm/provider).   *)
(*                                                                         *)
(* Spec       one Agent.Run against an arbitrary provider stream, the      *)
(*            tool registry, the permission gate, the TUI's dialog         *)
(*            and the TUI's Cancel and Settings keys.                      *)
(* SpecCheckFair, SpecRunFair  Spec with the scheduling of the Run's       *)
(*            goroutine (and of the TUI) assumed fair.                     *)
(* SpecStream one processStream call (Responses API or chat completions)   *)
(*            over an arbitrary wire input.                                *)
(* SpecProvider  the setters and calls of one OpenAIProvider.              *)
(* SpecApp    the running application: the TUI's Update loop, the Runs it  *)
(*            starts and cancels, their event channels and forwarding      *)
(*            goroutines, the permission listeners.                        *)
(* SpecBuildInput, SpecListModels, SpecDisplayLineCount  one call of       *)
(*            buildInput, ListModels, displayLineCount on bounded inputs.  *)
(* SpecRegistry  a tools.Registry under Register calls.                    *)
(* SpecInput  the prompt input under SetWidth, Update and Reset.           *)
(*                                                                         *)
(* Text values (argument fragments, text deltas) are sequences of tokens,  *)
(* so that concatenation is \o and the empty string is <<>>.               *)
(***************************************************************************)
EXTENDS Integers, Sequences, FiniteSets, TLC

\* ------------------------------------------------------------------ bounds

\* Stream events the provider may send in one turn before it closes the
\* stream (events the agent drops are not counted: they change nothing).
MaxStreamEvents == 4
\* Turns in which the provider, the tools and the user behave as their
\* family allows; in later turns the provider requests one "ls" call and the
\* tool succeeds.
MaxVariedTurns == 2
\* Wire lines processStream reads before the stream ends.
MaxWire == 4

\* --------------------------------------------------------------- constants

DefaultMaxIterations == 25

\* Config.MaxIterations values the agent is constructed with.
CfgMaxIterChoices == {-1, 0, 1, 2}

\* tools.DefaultRegistry: the registered tool names, in registration order.
RegistryOrder == <<"glob", "grep", "ls", "view", "bash", "write", "edit", "fetch">>

SeqRange(s) == {s[i] : i \in 1..Len(s)}

\* Tool.RequiresPermission of the registered tools.
RequiresPermission(name) == name \in {"bash", "write", "edit"}

\* Registry.Get: whether the name is registered.
RegistryHas(name) == name \in SeqRange(RegistryOrder)

\* PermSvc of the agent's Config: the application always passes the service.
PermSvcPresent == TRUE

\* Call ids and tool names the provider's stream may carry ("zap" is not
\* registered).
CallIds == {"c1", "c2"}
CallNames == {"ls", "bash", "zap", "write"}
\* The names of the calls in the "tools", "gate" and "history" families.
ToolsFamilyNames == {"ls", "bash", "zap"}
GateFamilyNames == {"bash", "write"}
HistoryFamilyNames == {"ls", "zap"}
TextDeltas == {<<"a">>}
ArgFragments == {<<"x">>}
EndInputs == {<<>>, <<"F">>}
\* Provider item identifiers (Responses API) and tool_call indexes (chat
\* completions) of one stream, and the call id the provider gives each.
ItemIds == {1, 2}
CallIdOf(k) == IF k = 1 THEN "c1" ELSE "c2"
Usages == {0, 15}

\* permission.Response
Allow == "Allow"
Deny == "Deny"
AllowForSession == "AllowForSession"
Responses == {Allow, Deny, AllowForSession}

\* ------------------------------------------------------------------- state

VARIABLES
    \* Agent (agent.go:58-66) and the Run's context
    mode, cfgMaxIterations, maxIterations, cancelled,
    \* the history slice the caller passes to Run
    history,
    \* the family the Run's environment is drawn from: "tools" (calls of any
    \* tool, streamed one after the other, any tool outcome and any answer of
    \* the user) or "stream" (any order of stream events, for a tool that
    \* needs no permission and succeeds) or "gate" (calls of tools that need
    \* permission, on a permission service earlier Runs have used and that
    \* may be reset at any moment) or "history" (as "tools", for tools that
    \* need no permission, with the messages of the history kept in full)
    \* or "tui" (one "ls" call a turn, with the TUI's Cancel and Settings
    \* keys)
    family,
    \* runLoop's position and locals (agent.go:115-262)
    pc, iteration, toolDefs, systemPrompt, currentHistory, textContent,
    toolCalls, pendingCalls, usage, toolResults, tcIdx,
    \* the stream events the agent has taken from the turn's stream
    nRecv,
    \* permission.Service (bash.go:139-143), the request Check is waiting on,
    \* the response channels of the requests made so far
    sessionAllowed, requestCh, respCh, curReq,
    \* tui.Model.permReq (model.go:83), and the tools for which the user has
    \* answered AllowForSession
    permReq, granted,
    \* for each response channel made so far: the sends and the receives
    \* made on it
    respLog,
    \* observation of the Run: what the current turn sent on the event
    \* channel and which Check / Execute calls it made, the terminal events
    \* sent so far, whether anything was sent after a terminal event, the
    \* SendMessage calls made, the tool declarations, the system prompt and
    \* the messages of the last request
    trace, nTerminal, afterTerminal, sendCount, sentTools, sentPrompt,
    sentMessages,
    \* processStream (one call): see SpecStream
    variant, spc, sctx, funcCalls, out, sTerminal, sAfterTerminal, nClose,
    nWire,
    \* the line processStream has last taken from its scanner
    line,
    \* what the wire has carried for each call: the argument fragments read
    \* for each item since its state was made, and for every completion
    \* signal of a call its payload, those fragments, and the place of the
    \* tool-call-end sent for it
    argLog,
    \* OpenAIProvider (part_000:19-24): its key and model id; the values the
    \* setters have given them so far; the SendMessage / ListModels calls made
    \* on it, each with the request it built; the Run that is calling it
    apiKey, model, cfgLog, provCalls, runNo,
    \* tui.Model (model.go:75-90): whether a Run is taken to be under way,
    \* and whether the settings overlay is open
    thinking, settingsOpen,
    \* the running application (see SpecApp): tui.Model.agentCancel as the
    \* number of the Run whose cancel function it holds (0: nil); the Runs
    \* the TUI has started; the listenForPermissions commands blocked on the
    \* request channel; the messages whose goroutines are sending them to the
    \* program's event loop; for each Run the events Update has handled, in
    \* the order it handled them; the requests the user has answered
    agentCancel, runs, listeners, tuiMsgs, handled, answered,
    \* SendMessage's request and the request body it builds from it
    \* (part_000:165-193), see SpecBuildInput
    sendReq, respReq,
    \* the response to ListModels' request and what ListModels returns
    \* (part_000:56-88), see SpecListModels
    modelsResp, listed,
    \* tools.Registry (part_007:149-153): its lookup table and its order
    \* list; the tools Register has been called with, in call order
    tools, order, registered,
    \* displayLineCount's arguments and its result (input.go:159-180), see
    \* SpecDisplayLineCount
    text, wrapWidth, rows,
    \* tui.Input (input.go:17-21): its width, and the value, the width and
    \* the height of its textarea; the last operation on it
    width, taValue, taWidth, taHeight, lastOp

agentVars == <<mode, cfgMaxIterations, history, maxIterations, cancelled, family, pc, iteration,
               toolDefs, systemPrompt, currentHistory, textContent, toolCalls,
               pendingCalls, usage, toolResults, tcIdx, nRecv>>
permVars == <<sessionAllowed, requestCh, respCh, curReq, permReq, granted,
              respLog>>
obsVars == <<trace, nTerminal, afterTerminal, sendCount, sentTools, sentPrompt,
             sentMessages>>
streamVars == <<variant, spc, sctx, funcCalls, out, sTerminal, sAfterTerminal,
                nClose, nWire, argLog, line>>
provVars == <<apiKey, model, cfgLog, provCalls, runNo>>
tuiVars == <<thinking, settingsOpen>>
appVars == <<agentCancel, runs, listeners, tuiMsgs, handled, answered>>
dispVars == <<text, wrapWidth, rows>>
inputVars == <<width, taValue, taWidth, taHeight, lastOp>>
fnVars == <<sendReq, respReq, modelsResp, listed, tools, order, registered,
            dispVars, inputVars>>
extVars == <<appVars, fnVars>>
vars == <<agentVars, permVars, obsVars, streamVars, provVars, tuiVars, extVars>>

\* ----------------------------------------------------------------- helpers

\* One entry of the turn's trace: an event sent on the Run's channel, a call
\* (Check, its return, Execute) the loop made, or the done event the loop
\* took from the provider's stream.
Ev(type, idx, id, name, data, err, req) ==
    [type |-> type, idx |-> idx, id |-> id, name |-> name, data |-> data,
     err |-> err, req |-> req]

EventTypes == {"StreamText", "ToolCallStart", "ToolCallEnd", "ToolResult",
               "AgentDone", "AgentError", "PersistMessage"}
TerminalTypes == {"AgentDone", "AgentError"}
OpTypes == {"Check", "Publish", "Answer", "CheckReturn", "Execute",
            "ProviderDone"}

IsEvent(e) == e.type \in EventTypes
IsTerminal(e) == e.type \in TerminalTypes

\* Positions of the trace entries of one type.
At(s, type) == {i \in 1..Len(s) : s[i].type = type}
CountOf(s, type) == Cardinality(At(s, type))

\* agent.New without the default: a configured bound that is not positive is
\* kept as it is.
NewNoDefault(cfgMax) == cfgMax

\* agent.New: the iteration bound of the constructed agent.
New(cfgMax) == IF cfgMax <= 0 THEN DefaultMaxIterations ELSE cfgMax

\* Agent.buildToolDefs: the declared tools, in registry order.
RECURSIVE FilterOrder(_, _)
FilterOrder(names, m) ==
    IF names = <<>> THEN <<>>
    ELSE IF m = "plan" /\ RequiresPermission(Head(names))
         THEN FilterOrder(Tail(names), m)
         ELSE <<Head(names)>> \o FilterOrder(Tail(names), m)

buildToolDefs(m) == FilterOrder(RegistryOrder, m)

\* The tools a system prompt names: in its mode section, and under its
\* "Available Tools" heading (in order).
Prompt(modeSection, available) ==
    [modeSection |-> modeSection, available |-> available]
NoPrompt == Prompt({}, <<>>)

\* prompt.BuildSystemPrompt: the PLAN section names write and edit (as not
\* available) and the read-only tools; the BUILD section names no tool; the
\* "Available Tools" section lists registry.All(), whatever the mode.
BuildSystemPrompt(m) ==
    Prompt(IF m = "plan"
           THEN {"write", "edit", "glob", "grep", "view", "ls", "fetch"}
           ELSE {},
           RegistryOrder)

\* permission.Request (its response channel named by the request's number);
\* NoRequest is the nil request.
Request(tool, req) == [tool |-> tool, req |-> req]
NoRequest == Request("", 0)

\* A response channel nothing was sent on or received from.
NoUse == [sent |-> 0, taken |-> 0]

\* A pendingCalls entry: absent, or the call being accumulated.
NoPending == [present |-> FALSE, name |-> "", args |-> <<>>]

\* Whether the provider and the tools may still behave arbitrarily.
Varied == iteration < MaxVariedTurns
TuiFamily == family = "tui"
HistoryFamily == Varied /\ family = "history"
StreamFamily == Varied /\ family = "stream"
ToolsFamily == Varied /\ family = "tools"
GateFamily == Varied /\ family = "gate"

\* A message as an element of a history slice: in full in the "history"
\* family, by its role in the others.
HistoryMsg(msg) == IF family = "history" THEN msg ELSE [role |-> msg.role]

\* The user message the caller's history ends with.
UserMsg == [role |-> "user", content |-> <<"q">>, calls |-> <<>>,
            results |-> <<>>, tokens |-> 0]

\* Sending `es` (events of the Run's channel, and the calls made between
\* them) in order.
Send(es) ==
    /\ trace' = trace \o es
    /\ nTerminal' = nTerminal + Cardinality({i \in 1..Len(es) : IsTerminal(es[i])})
    /\ afterTerminal' =
         (afterTerminal \/
          \E i \in 1..Len(es) :
              /\ IsEvent(es[i])
              /\ (nTerminal > 0 \/ \E j \in 1..(i - 1) : IsTerminal(es[j])))

ErrorEvent(cause) == Ev("AgentError", 0, "", "", cause, TRUE, 0)

\* ------------------------------------------------------------------- Init

\* A funcCalls / toolCalls entry of processStream: absent, or the call's
\* accumulation state.
NoCall == [present |-> FALSE, id |-> "", name |-> "", arguments |-> <<>>,
           started |-> FALSE]

\* A line of the response body: what it starts with, what follows, and, when
\* what follows is a JSON object, the object's type.
Line(prefix, data, type) == [prefix |-> prefix, data |-> data, type |-> type]
BlankLine == Line("", "", "")

\* Nothing read from the wire yet.
NoArgLog == [deltas |-> [k \in ItemIds |-> <<>>], ends |-> <<>>]

\* No stream is being processed.
NoStream ==
    /\ spc = "none"
    /\ sctx = FALSE
    /\ funcCalls = [k \in ItemIds |-> NoCall]
    /\ out = <<>>
    /\ sTerminal = 0
    /\ sAfterTerminal = FALSE
    /\ nClose = 0
    /\ nWire = 0
    /\ argLog = NoArgLog
    /\ line = BlankLine

\* permission.NewService (bash.go:146-151).
NewService ==
    /\ sessionAllowed = {}
    /\ requestCh = <<>>
    /\ respCh = <<>>
    /\ respLog = <<>>
    /\ granted = {}

\* The service as an earlier Run of the process may have left it: possibly
\* with the request of a Check that was cancelled before the TUI took the
\* request from the channel.
UsedService ==
    /\ sessionAllowed = {}
    /\ granted = {}
    /\ \E stale \in BOOLEAN :
          IF stale
          THEN /\ requestCh = <<Request("bash", 1)>>
               /\ respCh = << <<>> >>
               /\ respLog = <<NoUse>>
          ELSE /\ requestCh = <<>>
               /\ respCh = <<>>
               /\ respLog = <<>>

\* The provider's configuration fields.
Config(k, m) == [key |-> k, model |-> m]

\* NewOpenAIProvider (part_000:26-32), with the key and model of the
\* application's settings; no call has been made on it.
NewOpenAIProvider ==
    /\ apiKey = "k1"
    /\ model = "m1"
    /\ cfgLog = <<Config("k1", "m1")>>
    /\ provCalls = <<>>
    /\ runNo = 1

\* The application part of the state when no application is modelled.
AppIdle ==
    /\ agentCancel = 0
    /\ runs = <<>>
    /\ listeners = 0
    /\ tuiMsgs = {}
    /\ handled = <<>>
    /\ answered = {}

\* No request body has been built.
NoBody == [instructions |-> <<>>, input |-> <<>>, built |-> FALSE]
BuildIdle ==
    /\ sendReq = [systemPrompt |-> <<>>, messages |-> <<>>]
    /\ respReq = NoBody

\* ListModels has not returned.
NotListed == [models |-> <<>>, err |-> FALSE, returned |-> FALSE]
ListIdle ==
    /\ modelsResp = [outcome |-> "ok", data |-> <<>>]
    /\ listed = NotListed

\* NewRegistry (part_007:156-160): an empty table and no order list.
NewRegistry ==
    /\ tools = <<>>
    /\ order = <<>>
    /\ registered = <<>>

\* displayLineCount not called; no Input constructed.
NoRows == 0
DispIdle ==
    /\ text = <<>>
    /\ wrapWidth = 0
    /\ rows = NoRows
InputIdle ==
    /\ width = 0
    /\ taValue = <<>>
    /\ taWidth = 0
    /\ taHeight = 0
    /\ lastOp = "none"

FnIdle == BuildIdle /\ ListIdle /\ NewRegistry /\ DispIdle /\ InputIdle
ExtIdle == AppIdle /\ FnIdle

\* The agent as agent.New leaves it (with the given mode and configured
\* iteration bound), the permission service as NewService leaves it, the TUI
\* with no dialog; Run has not been called.
InitAgent(modes, cfgs, families) ==
    /\ mode \in modes
    /\ cfgMaxIterations \in cfgs
    /\ family \in families
    /\ maxIterations = New(cfgMaxIterations)
    /\ cancelled = FALSE
    /\ history = <<HistoryMsg(UserMsg)>>
    /\ pc = "idle"
    /\ iteration = 0
    /\ toolDefs = <<>>
    /\ systemPrompt = NoPrompt
    /\ currentHistory = <<>>
    /\ textContent = <<>>
    /\ toolCalls = <<>>
    /\ pendingCalls = [c \in CallIds |-> NoPending]
    /\ usage = 0
    /\ toolResults = <<>>
    /\ tcIdx = 0
    /\ nRecv = 0
    /\ IF family = "gate" THEN UsedService ELSE NewService
    /\ curReq = 0
    /\ permReq = NoRequest
    /\ trace = <<>>
    /\ nTerminal = 0
    /\ afterTerminal = FALSE
    /\ sendCount = 0
    /\ sentTools = <<>>
    /\ sentPrompt = NoPrompt
    /\ sentMessages = <<>>
    /\ NewOpenAIProvider
    /\ thinking = TuiFamily
    /\ settingsOpen = FALSE

Init ==
    /\ \/ InitAgent({"plan", "build"}, CfgMaxIterChoices, {"tools", "stream"})
       \/ InitAgent({"build"}, {2}, {"gate"})
       \/ InitAgent({"build"}, {3}, {"history"})
       \/ InitAgent({"build"}, {2}, {"tui"})
    /\ variant = "responses"
    /\ NoStream
    /\ ExtIdle

\* ---------------------------------------------------------- Agent.runLoop

\* Run starts the goroutine; runLoop builds the tool definitions and copies
\* the caller's history.
Run ==
    /\ pc = "idle"
    /\ pc' = "loop"
    /\ systemPrompt' = BuildSystemPrompt(mode)
    /\ toolDefs' = buildToolDefs(mode)
    /\ currentHistory' = history
    /\ UNCHANGED <<nRecv, mode, cfgMaxIterations, history, maxIterations, family, cancelled, iteration,
                   textContent, toolCalls, pendingCalls, usage, toolResults,
                   tcIdx, permVars, obsVars, streamVars, provVars, tuiVars, extVars>>

\* The context is cancelled by the caller, at any moment.
Cancel ==
    /\ ~cancelled
    /\ pc # "closed"
    /\ cancelled' = TRUE
    /\ UNCHANGED <<nRecv, mode, cfgMaxIterations, history, maxIterations, family, pc, iteration, toolDefs, systemPrompt,
                   currentHistory, textContent, toolCalls, pendingCalls, usage,
                   toolResults, tcIdx, permVars, obsVars, streamVars, provVars, tuiVars, extVars>>

\* Fail without the return: the error event is sent and runLoop goes on from
\* where it is.
FailWithoutReturn(cause) ==
    /\ Send(<<ErrorEvent(cause)>>)
    /\ pc' = pc

\* runLoop returns after sending a terminal error event.
Fail(cause) ==
    /\ Send(<<ErrorEvent(cause)>>)
    /\ pc' = "returned"

\* agent.go:125-128
LoopCancelled ==
    /\ pc = "loop"
    /\ iteration < maxIterations
    /\ cancelled
    /\ Fail("context canceled")
    /\ UNCHANGED <<nRecv, mode, cfgMaxIterations, history, maxIterations, family, cancelled, iteration,
                   toolDefs, systemPrompt, currentHistory, textContent, toolCalls, pendingCalls,
                   usage, toolResults, tcIdx, permVars, sendCount, sentTools, sentPrompt, sentMessages,
                   streamVars, provVars, tuiVars, extVars>>

\* A loop that tries again when SendMessage returns an error.
SendMessageRetries ==
    /\ pc = "loop"
    /\ iteration < maxIterations
    /\ ~cancelled
    /\ sendCount < 3
    /\ sendCount' = sendCount + 1
    /\ sentTools' = toolDefs
    /\ sentPrompt' = systemPrompt
    /\ sentMessages' = currentHistory
    /\ UNCHANGED <<nRecv, mode, cfgMaxIterations, history, maxIterations, family, cancelled, iteration,
                   toolDefs, systemPrompt, currentHistory, textContent, toolCalls, pendingCalls,
                   usage, toolResults, tcIdx, pc, permVars, trace, nTerminal,
                   afterTerminal, streamVars, provVars, tuiVars, extVars>>

\* agent.go:138-142: SendMessage returns a construction error.
SendMessageFails ==
    /\ pc = "loop"
    /\ iteration < maxIterations
    /\ ~cancelled
    /\ sendCount' = sendCount + 1
    /\ sentTools' = toolDefs
    /\ sentPrompt' = systemPrompt
    /\ sentMessages' = currentHistory
    /\ Fail("LLM request failed")
    /\ UNCHANGED <<nRecv, mode, cfgMaxIterations, history, maxIterations, family, cancelled, iteration,
                   toolDefs, systemPrompt, currentHistory, textContent, toolCalls, pendingCalls,
                   usage, toolResults, tcIdx, permVars, streamVars, provVars, tuiVars, extVars>>

\* agent.go:131-154: SendMessage returns a stream; the turn's accumulators
\* start empty.
SendMessageOk ==
    /\ pc = "loop"
    /\ iteration < maxIterations
    /\ ~cancelled
    /\ sendCount' = sendCount + 1
    /\ sentTools' = toolDefs
    /\ sentPrompt' = systemPrompt
    /\ sentMessages' = currentHistory
    /\ pc' = "stream"
    /\ textContent' = <<>>
    /\ toolCalls' = <<>>
    /\ pendingCalls' = [c \in CallIds |-> NoPending]
    /\ usage' = 0
    /\ toolResults' = <<>>
    /\ tcIdx' = 0
    /\ nRecv' = 0
    /\ trace' = <<>>
    /\ UNCHANGED <<mode, cfgMaxIterations, history, maxIterations, family, cancelled, iteration,
                   toolDefs, systemPrompt, currentHistory, permVars, nTerminal, afterTerminal,
                   streamVars, provVars, tuiVars, extVars>>

\* agent.go:124, 258-261: the loop's bound is reached.
MaxIterationsReached ==
    /\ pc = "loop"
    /\ ~(iteration < maxIterations)
    /\ Fail("agent reached maximum iterations")
    /\ UNCHANGED <<nRecv, mode, cfgMaxIterations, history, maxIterations, family, cancelled, iteration,
                   toolDefs, systemPrompt, currentHistory, textContent, toolCalls, pendingCalls,
                   usage, toolResults, tcIdx, permVars, sendCount, sentTools, sentPrompt, sentMessages,
                   streamVars, provVars, tuiVars, extVars>>

\* agent.go:158-160
RecvTextDelta ==
    /\ pc = "stream"
    /\ StreamFamily \/ (HistoryFamily /\ nRecv = 0)
    /\ nRecv < MaxStreamEvents
    /\ nRecv' = nRecv + 1
    /\ \E t \in TextDeltas :
          /\ textContent' = textContent \o t
          /\ Send(<<Ev("StreamText", 0, "", "", t, FALSE, 0)>>)
    /\ UNCHANGED <<mode, cfgMaxIterations, history, maxIterations, family, cancelled, pc, iteration,
                   toolDefs, systemPrompt, currentHistory, toolCalls, pendingCalls, usage,
                   toolResults, tcIdx, permVars, sendCount, sentTools, sentPrompt, sentMessages, streamVars, provVars, tuiVars, extVars>>

\* The tool-call-start events the provider streams: in the "tools" family
\* one call after the other, with ids c1, c2, .. in order; in the "stream"
\* family any id at any time, for the tool "ls"; in the "gate" family as in the "tools"
\* family, for tools that need permission; in a scripted turn one call.
NextId == IF CountOf(trace, "ToolCallStart") = 0 THEN "c1" ELSE "c2"
NonePending == \A c \in CallIds : ~pendingCalls[c].present
StartAllowed(id, name) ==
    \/ ToolsFamily /\ NonePending /\ id = NextId /\ name \in ToolsFamilyNames
    \/ HistoryFamily /\ NonePending /\ id = NextId /\ name \in HistoryFamilyNames
    \/ TuiFamily /\ NonePending /\ id = NextId /\ name = "ls"
    \/ GateFamily /\ NonePending /\ id = NextId /\ name \in GateFamilyNames
    \/ StreamFamily /\ name = "ls"
    \/ ~Varied /\ id = "c1" /\ name = "ls" /\ nRecv = 0

\* agent.go:162-172
RecvToolCallStart ==
    /\ pc = "stream"
    /\ nRecv < MaxStreamEvents
    /\ nRecv' = nRecv + 1
    /\ \E id \in CallIds, name \in CallNames :
          /\ StartAllowed(id, name)
          /\ pendingCalls' = [pendingCalls EXCEPT
                 ![id] = [present |-> TRUE, name |-> name, args |-> <<>>]]
          /\ Send(<<Ev("ToolCallStart", 0, id, name, <<>>, FALSE, 0)>>)
    /\ UNCHANGED <<mode, cfgMaxIterations, history, maxIterations, family, cancelled, pc, iteration,
                   toolDefs, systemPrompt, currentHistory, textContent, toolCalls, usage,
                   toolResults, tcIdx, permVars, sendCount, sentTools, sentPrompt, sentMessages, streamVars, provVars, tuiVars, extVars>>

\* agent.go:174-177: a delta for a call that is not pending is dropped.
RecvToolCallDelta ==
    /\ pc = "stream"
    /\ StreamFamily
    /\ \E id \in CallIds, frag \in ArgFragments :
          IF pendingCalls[id].present
          THEN /\ nRecv < MaxStreamEvents
               /\ nRecv' = nRecv + 1
               /\ pendingCalls' = [pendingCalls EXCEPT ![id].args = @ \o frag]
          ELSE UNCHANGED <<pendingCalls, nRecv>>
    /\ UNCHANGED <<mode, cfgMaxIterations, history, maxIterations, family, cancelled, pc, iteration,
                   toolDefs, systemPrompt, currentHistory, textContent, toolCalls, usage,
                   toolResults, tcIdx, permVars, obsVars, streamVars, provVars, tuiVars, extVars>>

\* agent.go:181-185: the input recorded for a finished call.
FinalInput(args, eventInput) == IF eventInput # <<>> THEN eventInput ELSE args

\* agent.go:179-198: an end for a call that is not pending is dropped.
RecvToolCallEnd ==
    /\ pc = "stream"
    /\ \E id \in CallIds, eventInput \in EndInputs :
          /\ StreamFamily \/ (pendingCalls[id].present /\ eventInput = <<>>)
          /\ IF pendingCalls[id].present
             THEN /\ nRecv < MaxStreamEvents
                  /\ nRecv' = nRecv + 1
                  /\ LET pending == pendingCalls[id]
                         input == FinalInput(pending.args, eventInput)
                     IN /\ toolCalls' = Append(toolCalls,
                               [id |-> id, name |-> pending.name, input |-> input])
                        /\ Send(<<Ev("ToolCallEnd", 0, id, pending.name, input,
                                     FALSE, 0)>>)
                        /\ pendingCalls' = [pendingCalls EXCEPT ![id] = NoPending]
             ELSE UNCHANGED <<toolCalls, pendingCalls, obsVars, nRecv>>
    /\ UNCHANGED <<mode, cfgMaxIterations, history, maxIterations, family, cancelled, pc, iteration,
                   toolDefs, systemPrompt, currentHistory, textContent, usage, toolResults,
                   tcIdx, permVars, sendCount, sentTools, sentPrompt, sentMessages, streamVars, provVars, tuiVars, extVars>>

\* agent.go:200-202
RecvError ==
    /\ pc = "stream"
    /\ Varied
    /\ Fail("stream error")
    /\ UNCHANGED <<nRecv, mode, cfgMaxIterations, history, maxIterations, family, cancelled, iteration,
                   toolDefs, systemPrompt, currentHistory, textContent, toolCalls, pendingCalls,
                   usage, toolResults, tcIdx, permVars, sendCount, sentTools, sentPrompt, sentMessages,
                   streamVars, provVars, tuiVars, extVars>>

\* agent.go:204-206
RecvDone ==
    /\ pc = "stream"
    /\ StreamFamily
    /\ nRecv < MaxStreamEvents
    /\ nRecv' = nRecv + 1
    /\ \E u \in Usages :
          /\ usage' = u
          /\ Send(<<Ev("ProviderDone", 0, "", "", u, FALSE, 0)>>)
    /\ UNCHANGED <<mode, cfgMaxIterations, history, maxIterations, family, cancelled, pc, iteration,
                   toolDefs, systemPrompt, currentHistory, textContent, toolCalls, pendingCalls,
                   toolResults, tcIdx, permVars, sendCount, sentTools, sentPrompt, sentMessages, streamVars, provVars, tuiVars, extVars>>

\* An assistant message that never gets the stream's usage.
AssistantMsgNoUsage == [role |-> "assistant", content |-> textContent,
                        calls |-> toolCalls, results |-> <<>>, tokens |-> 0]

\* message.NewAssistantMessage with the usage attached (agent.go:211-214)
AssistantMsg == [role |-> "assistant", content |-> textContent,
                 calls |-> toolCalls, results |-> <<>>, tokens |-> usage]

\* message.NewToolResultMessage (agent.go:249)
ToolResultMsg(results) == [role |-> "tool", content |-> <<>>, calls |-> <<>>,
                           results |-> results, tokens |-> 0]

\* StreamClosed without the intermediate persist event: the tools are run
\* straight after the stream.
StreamClosedNoPersist ==
    /\ pc = "stream"
    /\ Varied \/ toolCalls # <<>>
    /\ currentHistory' = Append(currentHistory, HistoryMsg(AssistantMsg))
    /\ IF Len(toolCalls) = 0
       THEN /\ Send(<<Ev("AgentDone", 0, "", "", AssistantMsg, FALSE, 0)>>)
            /\ pc' = "returned"
            /\ tcIdx' = tcIdx
       ELSE /\ UNCHANGED <<trace, nTerminal, afterTerminal>>
            /\ pc' = "tools"
            /\ tcIdx' = 1
    /\ UNCHANGED <<nRecv, mode, cfgMaxIterations, history, maxIterations, family, cancelled, iteration,
                   toolDefs, systemPrompt, textContent, toolCalls, pendingCalls, usage,
                   toolResults, permVars, sendCount, sentTools, sentPrompt, sentMessages, streamVars, provVars, tuiVars, extVars>>

\* agent.go:156, 210-226: the stream's channel is closed; the assistant
\* message is appended, and either ends the Run or is sent to be persisted.
StreamClosed ==
    /\ pc = "stream"
    /\ Varied \/ toolCalls # <<>>
    /\ currentHistory' = Append(currentHistory, HistoryMsg(AssistantMsg))
    /\ IF Len(toolCalls) = 0
       THEN /\ Send(<<Ev("AgentDone", 0, "", "", AssistantMsg, FALSE, 0)>>)
            /\ pc' = "returned"
            /\ tcIdx' = tcIdx
       ELSE /\ Send(<<Ev("PersistMessage", 0, "", "", AssistantMsg, FALSE, 0)>>)
            /\ pc' = "tools"
            /\ tcIdx' = 1
    /\ UNCHANGED <<nRecv, mode, cfgMaxIterations, history, maxIterations, family, cancelled, iteration,
                   toolDefs, systemPrompt, textContent, toolCalls, pendingCalls, usage,
                   toolResults, permVars, sendCount, sentTools, sentPrompt, sentMessages, streamVars, provVars, tuiVars, extVars>>

\* ------------------------------------------------------ Agent.executeTool

\* The call runLoop's tool loop is at (agent.go:230).
tc == toolCalls[tcIdx]

ToolResult(output, isError) ==
    [id |-> tc.id, name |-> tc.name, output |-> output, isError |-> isError]

\* agent.go:268-273
UnknownToolResult == ToolResult(<<"Error: unknown tool", tc.name>>, TRUE)
\* agent.go:280-285
PlanModeResult ==
    ToolResult(<<"Error: tool is not available in PLAN mode", tc.name>>, TRUE)
\* agent.go:292-297
DeniedResult == ToolResult(<<"Permission denied by user.">>, TRUE)
\* agent.go:304-309
ExecErrorResult == ToolResult(<<"Error: ", "execute failed">>, TRUE)
\* agent.go:312-317
ExecOkResult == ToolResult(<<"output">>, FALSE)

\* FinishTool that collects only the results of successful calls: the event
\* of a failed call is sent, its result is left out of the tool-role message.
FinishToolSkipErrors(ops, result) ==
    /\ toolResults' = IF result.isError THEN toolResults
                      ELSE Append(toolResults, result)
    /\ Send(ops \o <<Ev("ToolResult", tcIdx, tc.id, tc.name, result.output,
                        result.isError, 0)>>)
    /\ tcIdx' = tcIdx + 1
    /\ pc' = "tools"

\* agent.go:236-245: executeTool has returned `result` (after the calls
\* `ops`); the result is collected and its tool-result event sent.
FinishTool(ops, result) ==
    /\ toolResults' = Append(toolResults, result)
    /\ Send(ops \o <<Ev("ToolResult", tcIdx, tc.id, tc.name, result.output,
                        result.isError, 0)>>)
    /\ tcIdx' = tcIdx + 1
    /\ pc' = "tools"

\* A tool loop that, on cancellation, skips the call and goes on.
ToolCancelledSkipsCall ==
    /\ pc = "tools"
    /\ tcIdx <= Len(toolCalls)
    /\ cancelled
    /\ tcIdx' = tcIdx + 1
    /\ UNCHANGED <<nRecv, mode, cfgMaxIterations, history, maxIterations, family, cancelled, iteration,
                   toolDefs, systemPrompt, currentHistory, textContent, toolCalls, pendingCalls,
                   usage, toolResults, pc, permVars, obsVars, streamVars, provVars, tuiVars, extVars>>

\* agent.go:231-234: cancellation seen before a call.
ToolCancelled ==
    /\ pc = "tools"
    /\ tcIdx <= Len(toolCalls)
    /\ cancelled
    /\ Fail("context canceled")
    /\ UNCHANGED <<nRecv, mode, cfgMaxIterations, history, maxIterations, family, cancelled, iteration,
                   toolDefs, systemPrompt, currentHistory, textContent, toolCalls, pendingCalls,
                   usage, toolResults, tcIdx, permVars, sendCount, sentTools, sentPrompt, sentMessages,
                   streamVars, provVars, tuiVars, extVars>>

\* agent.go:266-274: the name is not registered.
ToolUnknown ==
    /\ pc = "tools"
    /\ tcIdx <= Len(toolCalls)
    /\ ~cancelled
    /\ ~RegistryHas(tc.name)
    /\ FinishTool(<<>>, UnknownToolResult)
    /\ UNCHANGED <<nRecv, mode, cfgMaxIterations, history, maxIterations, family, cancelled, iteration,
                   toolDefs, systemPrompt, currentHistory, textContent, toolCalls, pendingCalls,
                   usage, permVars, sendCount, sentTools, sentPrompt, sentMessages, streamVars, provVars, tuiVars, extVars>>

\* executeTool without the mode restriction.
BlockedNever(m, name) == FALSE

\* agent.go:277: the mode restriction of executeTool.
BlockedByMode(m, name) == m = "plan" /\ RequiresPermission(name)

\* executeTool that never consults the permission service.
NeedsCheckNever(name) == FALSE

\* agent.go:289: whether executeTool consults the permission service.
NeedsCheck(name) == RequiresPermission(name) /\ PermSvcPresent

\* agent.go:276-286
ToolPlanBlocked ==
    /\ pc = "tools"
    /\ tcIdx <= Len(toolCalls)
    /\ ~cancelled
    /\ RegistryHas(tc.name)
    /\ BlockedByMode(mode, tc.name)
    /\ FinishTool(<<>>, PlanModeResult)
    /\ UNCHANGED <<nRecv, mode, cfgMaxIterations, history, maxIterations, family, cancelled, iteration,
                   toolDefs, systemPrompt, currentHistory, textContent, toolCalls, pendingCalls,
                   usage, permVars, sendCount, sentTools, sentPrompt, sentMessages, streamVars, provVars, tuiVars, extVars>>

\* agent.go:288-302: executeTool goes on to Check, or straight to Execute.
ToolDispatch ==
    /\ pc = "tools"
    /\ tcIdx <= Len(toolCalls)
    /\ ~cancelled
    /\ RegistryHas(tc.name)
    /\ ~BlockedByMode(mode, tc.name)
    /\ pc' = IF NeedsCheck(tc.name) THEN "check" ELSE "execute"
    /\ UNCHANGED <<nRecv, mode, cfgMaxIterations, history, maxIterations, family, cancelled, iteration,
                   toolDefs, systemPrompt, currentHistory, textContent, toolCalls, pendingCalls,
                   usage, toolResults, tcIdx, permVars, obsVars, streamVars, provVars, tuiVars, extVars>>

\* ------------------------------------------------- permission.Service.Check

CheckOp == Ev("Check", tcIdx, tc.id, tc.name,
              [listed |-> tc.name \in sessionAllowed], cancelled, 0)

CheckReturnOp(resp, via, req) == Ev("CheckReturn", tcIdx, tc.id, tc.name,
                                    [resp |-> resp, via |-> via], FALSE, req)

\* bash.go:162-166: the tool is allowed for the session.
CheckAllowlisted ==
    /\ pc = "check"
    /\ tc.name \in sessionAllowed
    /\ Send(<<CheckOp, CheckReturnOp(Allow, "allowlist", 0)>>)
    /\ pc' = "execute"
    /\ UNCHANGED <<nRecv, mode, cfgMaxIterations, history, maxIterations, family, cancelled, iteration,
                   toolDefs, systemPrompt, currentHistory, textContent, toolCalls, pendingCalls,
                   usage, toolResults, tcIdx, permVars, sendCount, sentTools, sentPrompt, sentMessages,
                   streamVars, provVars, tuiVars, extVars>>

\* bash.go:167-176: the request and its response channel are made.
CheckMakeRequest ==
    /\ pc = "check"
    /\ tc.name \notin sessionAllowed
    /\ Send(<<CheckOp>>)
    /\ respCh' = Append(respCh, <<>>)
    /\ respLog' = Append(respLog, NoUse)
    /\ curReq' = Len(respCh) + 1
    /\ pc' = "checkSend"
    /\ UNCHANGED <<nRecv, mode, cfgMaxIterations, history, maxIterations, family, cancelled, iteration,
                   toolDefs, systemPrompt, currentHistory, textContent, toolCalls, pendingCalls,
                   usage, toolResults, tcIdx, sessionAllowed, requestCh, permReq,
                   granted, sendCount, sentTools, sentPrompt, sentMessages, streamVars, provVars, tuiVars, extVars>>

\* bash.go:149: the request channel's capacity.
RequestChCap == 1

\* bash.go:179-180: the select's send case, ready while the channel has room.
CheckPublish ==
    /\ pc = "checkSend"
    /\ Len(requestCh) < RequestChCap
    /\ requestCh' = Append(requestCh, Request(tc.name, curReq))
    /\ Send(<<Ev("Publish", tcIdx, tc.id, tc.name, <<>>, FALSE, curReq)>>)
    /\ pc' = "checkWait"
    /\ UNCHANGED <<nRecv, mode, cfgMaxIterations, history, maxIterations, family, cancelled, iteration,
                   toolDefs, systemPrompt, currentHistory, textContent, toolCalls, pendingCalls,
                   usage, toolResults, tcIdx, sessionAllowed, respCh, curReq,
                   permReq, granted, respLog, sendCount, sentTools, sentPrompt, sentMessages,
                   streamVars, provVars, tuiVars, extVars>>

\* A Check that lets the call through when the context is done.
CancelledAllows == Allow

\* What Check returns when the context is done (bash.go:182, 196).
CancelledResponse == Deny

\* executeTool that treats a denial as a failure of the loop: the Run ends
\* with an error event.
AfterCheckDenyFails(ret, via) ==
    IF ret = Deny
    THEN /\ Send(<<CheckReturnOp(ret, via, curReq), ErrorEvent("permission denied")>>)
         /\ pc' = "returned"
         /\ UNCHANGED <<toolResults, tcIdx>>
    ELSE /\ Send(<<CheckReturnOp(ret, via, curReq)>>)
         /\ pc' = "execute"
         /\ UNCHANGED <<toolResults, tcIdx>>

\* What executeTool does with Check's answer (agent.go:290-299): a Deny
\* becomes the denied result, anything else goes on to Execute.
AfterCheck(ret, via) ==
    IF ret = Deny
    THEN FinishTool(<<CheckReturnOp(ret, via, curReq)>>, DeniedResult)
    ELSE /\ Send(<<CheckReturnOp(ret, via, curReq)>>)
         /\ pc' = "execute"
         /\ UNCHANGED <<toolResults, tcIdx>>

\* bash.go:181-183: the select's ctx.Done case while publishing.
CheckPublishCancelled ==
    /\ pc = "checkSend"
    /\ cancelled
    /\ AfterCheck(CancelledResponse, "cancel")
    /\ UNCHANGED <<nRecv, mode, cfgMaxIterations, history, maxIterations, family, cancelled, iteration,
                   toolDefs, systemPrompt, currentHistory, textContent, toolCalls, pendingCalls,
                   usage, permVars, sendCount, sentTools, sentPrompt, sentMessages, streamVars, provVars, tuiVars, extVars>>

\* bash.go:188-194: what Check returns for the user's response.
CheckResult(resp) == IF resp = AllowForSession THEN Allow ELSE resp

\* An allowlist that remembers every allowing answer.
AllowlistAfterAnyAllow(allowed, resp, name) ==
    IF resp \in {Allow, AllowForSession} THEN allowed \cup {name} ELSE allowed

\* bash.go:188-191: the allowlist after the user's response.
AllowlistAfter(allowed, resp, name) ==
    IF resp = AllowForSession THEN allowed \cup {name} ELSE allowed

\* bash.go:187-194: the select's receive case, ready when the response
\* channel of this request holds a response.
CheckResponse ==
    /\ pc = "checkWait"
    /\ respCh[curReq] # <<>>
    /\ LET resp == Head(respCh[curReq])
       IN /\ respCh' = [respCh EXCEPT ![curReq] = Tail(@)]
          /\ respLog' = [respLog EXCEPT ![curReq].taken = @ + 1]
          /\ sessionAllowed' = AllowlistAfter(sessionAllowed, resp, tc.name)
          /\ AfterCheck(CheckResult(resp), "answer")
    /\ UNCHANGED <<nRecv, mode, cfgMaxIterations, history, maxIterations, family, cancelled, iteration,
                   toolDefs, systemPrompt, currentHistory, textContent, toolCalls, pendingCalls,
                   usage, requestCh, curReq, permReq, granted, sendCount,
                   sentTools, sentPrompt, sentMessages, streamVars, provVars, tuiVars, extVars>>

\* A second select without the ctx.Done case.
CheckWaitIgnoresCancel ==
    /\ pc = "checkWait"
    /\ FALSE
    /\ UNCHANGED vars

\* bash.go:195-196: the select's ctx.Done case while waiting.
CheckWaitCancelled ==
    /\ pc = "checkWait"
    /\ cancelled
    /\ AfterCheck(CancelledResponse, "cancel")
    /\ UNCHANGED <<nRecv, mode, cfgMaxIterations, history, maxIterations, family, cancelled, iteration,
                   toolDefs, systemPrompt, currentHistory, textContent, toolCalls, pendingCalls,
                   usage, permVars, sendCount, sentTools, sentPrompt, sentMessages, streamVars, provVars, tuiVars, extVars>>

\* agent.go:301-317: Tool.Execute returns its output or an error.
Execute ==
    /\ pc = "execute"
    /\ \E ok \in BOOLEAN :
          /\ ToolsFamily \/ ok
          /\ FinishTool(<<Ev("Execute", tcIdx, tc.id, tc.name, [ok |-> ok], FALSE, 0)>>,
                        IF ok THEN ExecOkResult ELSE ExecErrorResult)
    /\ UNCHANGED <<nRecv, mode, cfgMaxIterations, history, maxIterations, family, cancelled, iteration,
                   toolDefs, systemPrompt, currentHistory, textContent, toolCalls, pendingCalls,
                   usage, permVars, sendCount, sentTools, sentPrompt, sentMessages, streamVars, provVars, tuiVars, extVars>>

\* A loop that sends the tool-role message to be persisted and leaves it out
\* of its own history.
ToolsDoneNoAppend ==
    /\ pc = "tools"
    /\ tcIdx > Len(toolCalls)
    /\ currentHistory' = currentHistory
    /\ Send(<<Ev("PersistMessage", 0, "", "", ToolResultMsg(toolResults), FALSE, 0)>>)
    /\ iteration' = iteration + 1
    /\ pc' = "loop"
    /\ UNCHANGED <<nRecv, mode, cfgMaxIterations, history, maxIterations, family, cancelled, toolDefs, systemPrompt,
                   textContent, toolCalls, pendingCalls, usage, toolResults,
                   tcIdx, permVars, sendCount, sentTools, sentPrompt, sentMessages, streamVars, provVars, tuiVars, extVars>>

\* agent.go:248-256: every call of the turn has its result; the tool-role
\* message is appended and sent to be persisted, and the loop goes round.
ToolsDone ==
    /\ pc = "tools"
    /\ tcIdx > Len(toolCalls)
    /\ currentHistory' = Append(currentHistory, HistoryMsg(ToolResultMsg(toolResults)))
    /\ Send(<<Ev("PersistMessage", 0, "", "", ToolResultMsg(toolResults), FALSE, 0)>>)
    /\ iteration' = iteration + 1
    /\ pc' = "loop"
    /\ UNCHANGED <<nRecv, mode, cfgMaxIterations, history, maxIterations, family, cancelled, toolDefs, systemPrompt,
                   textContent, toolCalls, pendingCalls, usage, toolResults,
                   tcIdx, permVars, sendCount, sentTools, sentPrompt, sentMessages, streamVars, provVars, tuiVars, extVars>>

\* agent.go:108: the deferred close of the Run's channel.
CloseEvents ==
    /\ pc = "returned"
    /\ pc' = "closed"
    /\ UNCHANGED <<nRecv, mode, cfgMaxIterations, history, maxIterations, family, cancelled, iteration,
                   toolDefs, systemPrompt, currentHistory, textContent, toolCalls, pendingCalls,
                   usage, toolResults, tcIdx, permVars, obsVars, streamVars, provVars, tuiVars, extVars>>

\* bash.go:201-205: Reset, called by some other goroutine of the process.
Reset ==
    /\ family = "gate"
    /\ pc \notin {"idle", "closed"}
    /\ sessionAllowed' = {}
    /\ UNCHANGED <<agentVars, requestCh, respCh, curReq, permReq, granted,
                   respLog, obsVars, streamVars, provVars, tuiVars, extVars>>

\* bash.go:208-212
IsAllowed(toolName) == toolName \in sessionAllowed

\* ------------------------------------------------------------------- TUI

\* model.go:152-161, 201-203: the listener takes the next request and the
\* model shows it as the pending dialog.
UIShowRequest ==
    /\ permReq = NoRequest
    /\ requestCh # <<>>
    /\ permReq' = Head(requestCh)
    /\ requestCh' = Tail(requestCh)
    /\ UNCHANGED <<agentVars, sessionAllowed, respCh, curReq, granted, respLog,
                   obsVars, streamVars, provVars, tuiVars, extVars>>

\* A dialog that stays open after the user's key: the response is sent and
\* the request is kept.
UIAnswerKeepsRequest ==
    /\ permReq # NoRequest
    /\ respLog[permReq.req].sent < 2
    /\ \E resp \in Responses :
          /\ respCh' = [respCh EXCEPT ![permReq.req] = Append(@, resp)]
          /\ respLog' = [respLog EXCEPT ![permReq.req].sent = @ + 1]
          /\ trace' = Append(trace, Ev("Answer", 0, "", permReq.tool, resp, FALSE,
                                       permReq.req))
          /\ granted' = IF resp = AllowForSession
                        THEN granted \cup {permReq.tool} ELSE granted
    /\ permReq' = permReq
    /\ UNCHANGED <<agentVars, sessionAllowed, requestCh, curReq, nTerminal,
                   afterTerminal, sendCount, sentTools, sentPrompt, sentMessages, streamVars, provVars, tuiVars, extVars>>

\* bash.go:170: the capacity of a request's response channel.
RespChCap == 1

\* model.go:439-455: the user's key answers the dialog. The send on the
\* response channel goes through while the channel has room.
UIAnswer ==
    /\ permReq # NoRequest
    /\ Len(respCh[permReq.req]) < RespChCap
    /\ \E resp \in Responses :
          /\ respCh' = [respCh EXCEPT ![permReq.req] = Append(@, resp)]
          /\ respLog' = [respLog EXCEPT ![permReq.req].sent = @ + 1]
          /\ trace' = Append(trace, Ev("Answer", 0, "", permReq.tool, resp, FALSE,
                                       permReq.req))
          /\ granted' = IF resp = AllowForSession
                        THEN granted \cup {permReq.tool} ELSE granted
    /\ permReq' = NoRequest
    /\ UNCHANGED <<agentVars, sessionAllowed, requestCh, curReq, nTerminal,
                   afterTerminal, sendCount, sentTools, sentPrompt, sentMessages, streamVars, provVars, tuiVars, extVars>>

\* ------------------------------------------- OpenAIProvider: the setters

\* Calls made on the provider, changes of its configuration and Runs in one
\* life of the provider.
MaxCalls == 3
MaxSets == 2
MaxRuns == 2
ApiKeys == {"k1", "k2"}
ModelIds == {"m1", "m2"}

\* A call record: the request the call built (its model id, empty for
\* ListModels, and its Authorization key), the Run that made it, the number
\* of values the configuration had had when it started, and whether its
\* response is still being read.
Call(kind, req, run, epoch, open) ==
    [kind |-> kind, req |-> req, run |-> run, epoch |-> epoch, open |-> open]

OpenCalls == {i \in 1..Len(provCalls) : provCalls[i].open}

\* part_000:37
SetAPIKey ==
    /\ Len(cfgLog) <= MaxSets
    /\ \E k \in ApiKeys :
          /\ apiKey' = k
          /\ cfgLog' = Append(cfgLog, Config(k, model))
    /\ UNCHANGED <<agentVars, permVars, obsVars, streamVars, tuiVars, extVars, model, provCalls, runNo>>

\* A setter that also rewrites the requests of the streams in flight.
SetModelRebinds ==
    /\ Len(cfgLog) <= MaxSets
    /\ \E m \in ModelIds :
          /\ model' = m
          /\ cfgLog' = Append(cfgLog, Config(apiKey, m))
          /\ provCalls' = [i \in 1..Len(provCalls) |->
                 IF provCalls[i].open /\ provCalls[i].kind = "SendMessage"
                 THEN [provCalls[i] EXCEPT !.req.model = m]
                 ELSE provCalls[i]]
    /\ UNCHANGED <<agentVars, permVars, obsVars, streamVars, tuiVars, extVars, apiKey, runNo>>

\* part_000:40
SetModel ==
    /\ Len(cfgLog) <= MaxSets
    /\ \E m \in ModelIds :
          /\ model' = m
          /\ cfgLog' = Append(cfgLog, Config(apiKey, m))
    /\ UNCHANGED <<agentVars, permVars, obsVars, streamVars, tuiVars, extVars, apiKey, provCalls, runNo>>

\* ------------------------------------------------- tui.Model: the settings

\* model.go:246-253: the Cancel key while a Run is taken to be under way
\* cancels the Run's context and stops taking the Run to be under way. The
\* key reaches this case when no dialog is open (model.go:218-225).
UICancel ==
    /\ TuiFamily
    /\ pc # "idle"
    /\ thinking
    /\ ~settingsOpen
    /\ permReq = NoRequest
    /\ cancelled' = TRUE
    /\ thinking' = FALSE
    /\ UNCHANGED <<nRecv, mode, cfgMaxIterations, history, maxIterations, family, pc, iteration, toolDefs, systemPrompt,
                   currentHistory, textContent, toolCalls, pendingCalls, usage,
                   toolResults, tcIdx, permVars, obsVars, streamVars, provVars,
                   settingsOpen, extVars>>

\* model.go:410-432: the Run's terminal event has reached the TUI.
UIAgentEnded ==
    /\ TuiFamily
    /\ nTerminal > 0
    /\ thinking
    /\ thinking' = FALSE
    /\ UNCHANGED <<agentVars, permVars, obsVars, streamVars, provVars,
                   settingsOpen, extVars>>

\* model.go:255-261: the Settings key opens the overlay unless a Run is
\* taken to be under way.
UIOpenSettings ==
    /\ TuiFamily
    /\ ~thinking
    /\ ~settingsOpen
    /\ permReq = NoRequest
    /\ settingsOpen' = TRUE
    /\ UNCHANGED <<agentVars, permVars, obsVars, streamVars, provVars,
                   thinking, extVars>>

\* model.go:482-497: enter in the overlay's key view gives the provider the
\* key that was typed.
UISaveAPIKey ==
    /\ TuiFamily
    /\ settingsOpen
    /\ SetAPIKey

\* model.go:500-516: enter in the overlay's models view gives the provider
\* the model that was selected.
UISelectModel ==
    /\ TuiFamily
    /\ settingsOpen
    /\ SetModel

\* model.go:464-470: esc in the overlay closes it.
UICloseSettings ==
    /\ TuiFamily
    /\ settingsOpen
    /\ settingsOpen' = FALSE
    /\ UNCHANGED <<agentVars, permVars, obsVars, streamVars, provVars,
                   thinking, extVars>>

Next ==
    \/ Run
    \/ Cancel
    \/ LoopCancelled
    \/ SendMessageFails
    \/ SendMessageOk
    \/ MaxIterationsReached
    \/ RecvTextDelta
    \/ RecvToolCallStart
    \/ RecvToolCallDelta
    \/ RecvToolCallEnd
    \/ RecvError
    \/ RecvDone
    \/ StreamClosed
    \/ ToolCancelled
    \/ ToolUnknown
    \/ ToolPlanBlocked
    \/ ToolDispatch
    \/ CheckAllowlisted
    \/ CheckMakeRequest
    \/ CheckPublish
    \/ CheckPublishCancelled
    \/ CheckResponse
    \/ CheckWaitCancelled
    \/ Execute
    \/ ToolsDone
    \/ CloseEvents
    \/ Reset
    \/ UIShowRequest
    \/ UIAnswer
    \/ UICancel
    \/ UIAgentEnded
    \/ UIOpenSettings
    \/ UISaveAPIKey
    \/ UISelectModel
    \/ UICloseSettings

Spec == Init /\ [][Next]_vars

\* The Run with a Check that makes progress: a select with a ready case
\* takes one of its ready cases. Nothing is assumed of the TUI.
SpecCheckFair ==
    /\ Spec
    /\ WF_vars(CheckPublishCancelled)
    /\ WF_vars(CheckWaitCancelled)

\* The steps of the Run's goroutine and of what it waits for in the provider
\* and the tools: the stream's events and close, Check's selects, Execute.
AgentNext ==
    \/ Run
    \/ LoopCancelled
    \/ SendMessageFails
    \/ SendMessageOk
    \/ MaxIterationsReached
    \/ RecvTextDelta
    \/ RecvToolCallStart
    \/ RecvToolCallDelta
    \/ RecvToolCallEnd
    \/ RecvError
    \/ RecvDone
    \/ StreamClosed
    \/ ToolCancelled
    \/ ToolUnknown
    \/ ToolPlanBlocked
    \/ ToolDispatch
    \/ CheckAllowlisted
    \/ CheckMakeRequest
    \/ CheckPublish
    \/ CheckPublishCancelled
    \/ CheckResponse
    \/ CheckWaitCancelled
    \/ Execute
    \/ ToolsDone
    \/ CloseEvents

\* The Run in an environment that lets it go on: every stream closes, every
\* Execute returns, the goroutine is scheduled, the consumer of the events
\* keeps receiving, and the TUI takes and answers every permission request.
SpecRunFair ==
    /\ Spec
    /\ WF_vars(AgentNext)
    /\ WF_vars(UIShowRequest)
    /\ WF_vars(UIAnswer)

\* ===================================================== processStream ======

\* provider.StreamEvent
SEv(type, id, name, input) ==
    [type |-> type, id |-> id, name |-> name, input |-> input]

STerminalTypes == {"Done", "Error"}

\* Sending `es` on the stream's event channel, in order.
SEmit(es) ==
    /\ out' = out \o es
    /\ sTerminal' = sTerminal +
           Cardinality({i \in 1..Len(es) : es[i].type \in STerminalTypes})
    /\ sAfterTerminal' =
         (sAfterTerminal \/
          \E i \in 1..Len(es) :
              sTerminal > 0 \/ \E j \in 1..(i - 1) : es[j].type \in STerminalTypes)

\* processStream returns after sending the events `es`.
SReturn(es) ==
    /\ SEmit(es)
    /\ spc' = "returned"

\* The orders in which Go may range over the map's entries `keys`.
RangeOrders(keys) ==
    {o \in [1..Cardinality(keys) -> keys] :
        \A i, j \in 1..Cardinality(keys) : i # j => o[i] # o[j]}

\* The tool-call-end events of a flush that ranges over the map in order `o`
\* (part_000:439-449, openai.go:263-273, 337-347): only started calls.
RECURSIVE FlushEvents(_, _)
FlushEvents(o, calls) ==
    IF o = <<>> THEN <<>>
    ELSE (IF calls[Head(o)].started
          THEN <<SEv("ToolCallEnd", calls[Head(o)].id, calls[Head(o)].name,
                     calls[Head(o)].arguments)>>
          ELSE <<>>) \o FlushEvents(Tail(o), calls)

PresentKeys == {k \in ItemIds : funcCalls[k].present}

\* The log after an argument fragment was read for `item`.
LogDelta(item, delta) ==
    [argLog EXCEPT !.deltas[item] = @ \o delta]

\* The log after the state of `item` was made anew.
LogNew(item) == [argLog EXCEPT !.deltas[item] = <<>>]

\* The log after a completion signal with `payload` ended `item`, its
\* tool-call-end being the event sent at place `at`.
LogEnd(log, item, payload, at) ==
    [deltas |-> [log.deltas EXCEPT ![item] = <<>>],
     ends |-> Append(log.ends, [payload |-> payload, deltas |-> log.deltas[item],
                                at |-> at])]

\* The log after a flush that ranged over the map in order `o`, the first
\* event of the flush being sent at place `at`.
RECURSIVE LogFlush(_, _, _, _)
LogFlush(log, o, calls, at) ==
    IF o = <<>> THEN log
    ELSE IF calls[Head(o)].started
         THEN LogFlush(LogEnd(log, Head(o), <<>>, at), Tail(o), calls, at + 1)
         ELSE LogFlush([log EXCEPT !.deltas[Head(o)] = <<>>], Tail(o), calls, at)

\* The goroutine of SendMessage has a response body to read.
InitStreamScan ==
    /\ variant \in {"responses", "chat"}
    /\ spc = "scan"
    /\ sctx = FALSE
    /\ funcCalls = [k \in ItemIds |-> NoCall]
    /\ out = <<>>
    /\ sTerminal = 0
    /\ sAfterTerminal = FALSE
    /\ nClose = 0
    /\ nWire = 0
    /\ argLog = NoArgLog
    /\ line = BlankLine

\* A line was scanned and the context is not cancelled.
Scanned ==
    /\ spc = "scan"
    /\ ~sctx
    /\ nWire < MaxWire
    /\ nWire' = nWire + 1

\* The context of the stream is cancelled.
StreamCancel ==
    /\ spc = "scan"
    /\ ~sctx
    /\ sctx' = TRUE
    /\ UNCHANGED <<agentVars, permVars, obsVars, provVars, tuiVars, extVars, variant, spc, funcCalls, out,
                   sTerminal, sAfterTerminal, nClose, nWire, argLog, line>>

\* part_000:303-306, openai.go:242-245: a line was scanned after the
\* context was cancelled.
ScanCancelled ==
    /\ spc = "scan"
    /\ sctx
    /\ SReturn(<<SEv("Error", "", "", <<"context canceled">>)>>)
    /\ UNCHANGED <<agentVars, permVars, obsVars, provVars, tuiVars, extVars, variant, sctx, funcCalls,
                   nClose, nWire, argLog, line>>

\* A data line that holds a JSON object of the given type.
DataLine(type) == Line("data: ", "json", type)

\* The event types the adapter handles (part_000:332-473); a chat
\* completions chunk has no type and is handled as such (openai.go:283-349).
HandledTypes(v) ==
    IF v = "responses"
    THEN {"response.output_text.delta", "response.output_item.added",
          "response.function_call_arguments.delta",
          "response.function_call_arguments.done", "response.output_item.done",
          "response.completed", "response.failed", "response.incomplete"}
    ELSE {"chunk"}

\* The lines a body may carry beside the handled events: an empty line, a
\* comment, an event-type line, other SSE fields, text without a field name,
\* a data line that is not JSON, a data line without the space, the [DONE]
\* mark of chat completions, JSON of a type the adapter does not handle.
OtherLines ==
    {BlankLine, Line(":", "keep-alive", ""), Line("event: ", "response.created", ""),
     Line("id: ", "7", ""), Line("", "garbage", ""), Line("data: ", "{bad", ""),
     Line("data:", "json", "response.output_text.delta"),
     Line("data: ", "[DONE]", ""),
     DataLine("response.created"), DataLine("response.in_progress")}

\* part_000:310-330, 475-482 (openai.go:249-257, 278-281): whether the loop
\* goes on to the next line without handling this one.
Skipped(v, l) ==
    \/ l.prefix = "" /\ l.data = ""
    \/ l.prefix = ":"
    \/ v = "responses" /\ l.prefix = "event: "
    \/ l.prefix # "data: "
    \/ l.data # "json" /\ ~(v = "chat" /\ l.data = "[DONE]")
    \/ l.data = "json" /\ l.type \notin HandledTypes(v)

\* A line filter that gives up on a data line that is not JSON.
WireIgnoredStrict ==
    /\ Scanned
    /\ \E l \in OtherLines :
          /\ line' = l
          /\ IF l.prefix = "data: " /\ l.data # "json"
             THEN SReturn(<<SEv("Error", "", "", <<"malformed event">>)>>)
             ELSE /\ Skipped(variant, l)
                  /\ UNCHANGED <<spc, out, sTerminal, sAfterTerminal>>
    /\ UNCHANGED <<agentVars, permVars, obsVars, provVars, tuiVars, extVars, variant, sctx, funcCalls,
                   nClose, argLog>>

\* A line the loop skips: nothing is sent and nothing is accumulated.
WireIgnored ==
    /\ Scanned
    /\ \E l \in OtherLines :
          /\ Skipped(variant, l)
          /\ line' = l
    /\ UNCHANGED <<agentVars, permVars, obsVars, provVars, tuiVars, extVars, variant, spc, sctx, funcCalls,
                   out, sTerminal, sAfterTerminal, nClose, argLog>>

\* part_000:335-341 (response.output_text.delta), openai.go:287-292 (a
\* chunk's content).
WireText ==
    /\ Scanned
    /\ line' = (IF variant = "responses" THEN DataLine("response.output_text.delta")
                ELSE DataLine("chunk"))
    /\ \E delta \in {<<>>} \cup TextDeltas :
          SEmit(IF delta # <<>> THEN <<SEv("TextDelta", "", "", delta)>> ELSE <<>>)
    /\ UNCHANGED <<agentVars, permVars, obsVars, provVars, tuiVars, extVars, variant, spc, sctx, funcCalls,
                   nClose, argLog>>

\* part_000:344-366: response.output_item.added.
RespItemAdded ==
    /\ variant = "responses"
    /\ Scanned
    /\ line' = DataLine("response.output_item.added")
    /\ \E kind \in {"malformed", "message", "function_call"}, item \in ItemIds :
       \E callID \in {"", CallIdOf(item)}, name \in {"", "ls"} :
          IF kind = "function_call"
          THEN LET started == callID # "" /\ name # ""
               IN /\ funcCalls' = [funcCalls EXCEPT ![item] =
                         [present |-> TRUE, id |-> callID, name |-> name,
                          arguments |-> <<>>, started |-> started]]
                  /\ SEmit(IF started
                           THEN <<SEv("ToolCallStart", callID, name, <<>>)>>
                           ELSE <<>>)
                  /\ argLog' = LogNew(item)
          ELSE /\ callID = "" /\ name = ""
               /\ UNCHANGED <<funcCalls, out, sTerminal, sAfterTerminal, argLog>>
    /\ UNCHANGED <<agentVars, permVars, obsVars, provVars, tuiVars, extVars, variant, spc, sctx, nClose>>

\* part_000:368-384: response.function_call_arguments.delta.
RespArgsDelta ==
    /\ variant = "responses"
    /\ Scanned
    /\ line' = DataLine("response.function_call_arguments.delta")
    /\ \E item \in ItemIds, delta \in {<<>>} \cup ArgFragments :
          IF delta # <<>>
          THEN LET state == IF funcCalls[item].present THEN funcCalls[item]
                            ELSE [NoCall EXCEPT !.present = TRUE]
               IN /\ funcCalls' = [funcCalls EXCEPT ![item] =
                         [state EXCEPT !.arguments = @ \o delta]]
                  /\ SEmit(<<SEv("ToolCallDelta", state.id, state.name, delta)>>)
                  /\ argLog' = LogDelta(item, delta)
          ELSE UNCHANGED <<funcCalls, out, sTerminal, sAfterTerminal, argLog>>
    /\ UNCHANGED <<agentVars, permVars, obsVars, provVars, tuiVars, extVars, variant, spc, sctx, nClose>>

\* Final arguments that keep the accumulated buffer whenever it has content.
FinalArgsKeepsBuffer(accumulated, resent) ==
    IF accumulated # <<>> THEN accumulated ELSE resent

\* part_000:390-394, 414-417: the arguments of a finished call.
FinalArgs(accumulated, resent) == IF resent # <<>> THEN resent ELSE accumulated

\* part_000:386-402: response.function_call_arguments.done.
RespArgsDone ==
    /\ variant = "responses"
    /\ Scanned
    /\ line' = DataLine("response.function_call_arguments.done")
    /\ \E item \in ItemIds, delta \in EndInputs :
          IF funcCalls[item].present
          THEN LET state == funcCalls[item]
               IN /\ SEmit(<<SEv("ToolCallEnd", state.id, state.name,
                                 FinalArgs(state.arguments, delta))>>)
                  /\ funcCalls' = [funcCalls EXCEPT ![item] = NoCall]
                  /\ argLog' = LogEnd(argLog, item, delta, Len(out) + 1)
          ELSE UNCHANGED <<funcCalls, out, sTerminal, sAfterTerminal, argLog>>
    /\ UNCHANGED <<agentVars, permVars, obsVars, provVars, tuiVars, extVars, variant, spc, sctx, nClose>>

\* part_000:404-434: response.output_item.done.
RespItemDone ==
    /\ variant = "responses"
    /\ Scanned
    /\ line' = DataLine("response.output_item.done")
    /\ \E kind \in {"malformed", "message", "function_call"}, item \in ItemIds,
          known \in BOOLEAN, arguments \in EndInputs :
          LET callID == IF known THEN CallIdOf(item) ELSE ""
              name == IF known THEN "ls" ELSE ""
          IN IF kind = "function_call" /\ funcCalls[item].present
             THEN LET state == funcCalls[item]
                      finalArgs == FinalArgs(state.arguments, arguments)
                  IN /\ SEmit((IF ~state.started
                               THEN <<SEv("ToolCallStart", callID, name, <<>>)>>
                               ELSE <<>>)
                              \o <<SEv("ToolCallEnd", callID, name, finalArgs)>>)
                     /\ funcCalls' = [funcCalls EXCEPT ![item] = NoCall]
                     /\ argLog' = LogEnd(argLog, item, arguments,
                                         Len(out) + (IF state.started THEN 1 ELSE 2))
             ELSE UNCHANGED <<funcCalls, out, sTerminal, sAfterTerminal, argLog>>
    /\ UNCHANGED <<agentVars, permVars, obsVars, provVars, tuiVars, extVars, variant, spc, sctx, nClose>>

\* part_000:437-451 (response.completed), openai.go:261-276 ("[DONE]"): the
\* calls still in the map are flushed, then the done event is sent.
WireCompleted ==
    /\ spc = "scan"
    /\ ~sctx
    /\ \E o \in RangeOrders(PresentKeys) :
          /\ SReturn(FlushEvents(o, funcCalls) \o <<SEv("Done", "", "", <<>>)>>)
          /\ argLog' = LogFlush(argLog, o, funcCalls, Len(out) + 1)
    /\ funcCalls' = [k \in ItemIds |-> NoCall]
    /\ line' = IF variant = "responses" THEN DataLine("response.completed")
               ELSE Line("data: ", "[DONE]", "")
    /\ UNCHANGED <<agentVars, permVars, obsVars, provVars, tuiVars, extVars, variant, sctx, nClose, nWire>>

\* part_000:453-466: response.failed, with or without an error body.
RespFailed ==
    /\ variant = "responses"
    /\ spc = "scan"
    /\ ~sctx
    /\ \E body \in BOOLEAN :
          SReturn(<<SEv("Error", "", "",
                        IF body THEN <<"OpenAI API error", "code", "message">>
                        ELSE <<"response failed">>)>>)
    /\ line' = DataLine("response.failed")
    /\ UNCHANGED <<agentVars, permVars, obsVars, provVars, tuiVars, extVars, variant, sctx, funcCalls,
                   nClose, nWire, argLog>>

\* part_000:468-473: response.incomplete.
RespIncomplete ==
    /\ variant = "responses"
    /\ spc = "scan"
    /\ ~sctx
    /\ SReturn(<<SEv("Error", "", "", <<"response incomplete">>)>>)
    /\ line' = DataLine("response.incomplete")
    /\ UNCHANGED <<agentVars, permVars, obsVars, provVars, tuiVars, extVars, variant, sctx, funcCalls,
                   nClose, nWire, argLog>>

\* openai.go:295-332: one tool_calls entry of a chunk's delta.
ChatToolCall ==
    /\ variant = "chat"
    /\ Scanned
    /\ line' = DataLine("chunk")
    /\ \E idx \in ItemIds, name \in {"", "ls"},
          arguments \in {<<>>} \cup ArgFragments :
       \E id \in {"", CallIdOf(idx)} :
          LET s0 == IF funcCalls[idx].present THEN funcCalls[idx]
                    ELSE [NoCall EXCEPT !.present = TRUE]
              s1 == [s0 EXCEPT !.id = IF id # "" THEN id ELSE @,
                               !.name = IF name # "" THEN name ELSE @]
              starts == ~s1.started /\ s1.id # "" /\ s1.name # ""
              s2 == [s1 EXCEPT !.started = @ \/ starts,
                               !.arguments = @ \o arguments]
          IN /\ funcCalls' = [funcCalls EXCEPT ![idx] = s2]
             /\ argLog' = LogDelta(idx, arguments)
             /\ SEmit((IF starts
                       THEN <<SEv("ToolCallStart", s1.id, s1.name, <<>>)>>
                       ELSE <<>>)
                      \o (IF arguments # <<>>
                          THEN <<SEv("ToolCallDelta", s1.id, s1.name, arguments)>>
                          ELSE <<>>))
    /\ UNCHANGED <<agentVars, permVars, obsVars, provVars, tuiVars, extVars, variant, spc, sctx, nClose>>

\* openai.go:334-348: a chunk's finish_reason flushes the calls in the map.
ChatFinish ==
    /\ variant = "chat"
    /\ Scanned
    /\ line' = DataLine("chunk")
    /\ \E o \in RangeOrders(PresentKeys) :
          /\ SEmit(FlushEvents(o, funcCalls))
          /\ argLog' = LogFlush(argLog, o, funcCalls, Len(out) + 1)
    /\ funcCalls' = [k \in ItemIds |-> NoCall]
    /\ UNCHANGED <<agentVars, permVars, obsVars, provVars, tuiVars, extVars, variant, spc, sctx, nClose>>

\* part_000:485-488, openai.go:352-355: the scanner stopped on a read error.
ScanError ==
    /\ spc = "scan"
    /\ SReturn(<<SEv("Error", "", "", <<"reading stream">>)>>)
    /\ UNCHANGED <<agentVars, permVars, obsVars, provVars, tuiVars, extVars, variant, sctx, funcCalls,
                   nClose, nWire, argLog, line>>

\* The end of the body handled without the final done event.
ScanEOFSilent ==
    /\ spc = "scan"
    /\ SReturn(<<>>)
    /\ UNCHANGED <<agentVars, permVars, obsVars, provVars, tuiVars, extVars, variant, sctx, funcCalls,
                   nClose, nWire, argLog, line>>

\* part_000:490-491, openai.go:357-358: the body ended without a completion
\* signal.
ScanEOF ==
    /\ spc = "scan"
    /\ SReturn(<<SEv("Done", "", "", <<>>)>>)
    /\ UNCHANGED <<agentVars, permVars, obsVars, provVars, tuiVars, extVars, variant, sctx, funcCalls,
                   nClose, nWire, argLog, line>>

\* part_000:222-227, openai.go:159-164: the deferred close of the channel.
StreamClose ==
    /\ spc = "returned"
    /\ spc' = "closed"
    /\ nClose' = nClose + 1
    /\ UNCHANGED <<agentVars, permVars, obsVars, provVars, tuiVars, extVars, variant, sctx, funcCalls, out,
                   sTerminal, sAfterTerminal, nWire, argLog, line>>

InitS ==
    /\ InitAgent({"build"}, {1}, {"tools"})
    /\ InitStreamScan
    /\ ExtIdle

NextS ==
    \/ StreamCancel
    \/ ScanCancelled
    \/ WireIgnored
    \/ WireText
    \/ RespItemAdded
    \/ RespArgsDelta
    \/ RespArgsDone
    \/ RespItemDone
    \/ WireCompleted
    \/ RespFailed
    \/ RespIncomplete
    \/ ChatToolCall
    \/ ChatFinish
    \/ ScanError
    \/ ScanEOF
    \/ StreamClose

SpecStream == InitS /\ [][NextS]_vars

\* ==================================================== OpenAIProvider ======

\* part_000:165-230 (openai.go:104-167): the request is built with the
\* provider's model id and sent with its key; the response is read by the
\* stream's goroutine. A Run makes its calls one after the other.
ProviderSendMessage ==
    /\ Len(provCalls) < MaxCalls
    /\ \A i \in OpenCalls : provCalls[i].kind # "SendMessage"
    /\ provCalls' = Append(provCalls,
           Call("SendMessage", Config(apiKey, model), runNo, Len(cfgLog), TRUE))
    /\ UNCHANGED <<agentVars, permVars, obsVars, streamVars, tuiVars, extVars, apiKey, model, cfgLog,
                   runNo>>

\* part_000:56-63: the models request is sent with the provider's key.
ListModels ==
    /\ Len(provCalls) < MaxCalls
    /\ provCalls' = Append(provCalls,
           Call("ListModels", Config(apiKey, ""), 0, Len(cfgLog), TRUE))
    /\ UNCHANGED <<agentVars, permVars, obsVars, streamVars, tuiVars, extVars, apiKey, model, cfgLog,
                   runNo>>

\* part_000:222-227, 64-87: the response of a call has been read to its end.
ProviderResponseEnd ==
    /\ \E i \in OpenCalls : provCalls' = [provCalls EXCEPT ![i].open = FALSE]
    /\ UNCHANGED <<agentVars, permVars, obsVars, streamVars, tuiVars, extVars, apiKey, model, cfgLog,
                   runNo>>

\* The Run that was calling the provider has ended and the next one starts.
NextRun ==
    /\ runNo < MaxRuns
    /\ \E i \in 1..Len(provCalls) : provCalls[i].run = runNo
    /\ \A i \in OpenCalls : provCalls[i].kind # "SendMessage"
    /\ runNo' = runNo + 1
    /\ UNCHANGED <<agentVars, permVars, obsVars, streamVars, tuiVars, extVars, apiKey, model, cfgLog,
                   provCalls>>

InitP ==
    /\ InitAgent({"build"}, {1}, {"tools"})
    /\ variant = "responses"
    /\ NoStream
    /\ ExtIdle

NextP ==
    \/ SetAPIKey
    \/ SetModel
    \/ ProviderSendMessage
    \/ ListModels
    \/ ProviderResponseEnd
    \/ NextRun

SpecProvider == InitP /\ [][NextP]_vars

\* ================================================== the running application

\* Runs the user starts in one life of the application, and events a Run
\* sends on its channel (the last one its terminal event).
MaxAppRuns == 2
MaxRunEvents == 3

\* What the application's steps leave alone.
appFrame == <<agentVars, sessionAllowed, respCh, curReq, granted, respLog,
              obsVars, streamVars, provVars, settingsOpen, fnVars>>

\* A Run started by submitPrompt: its context, where its goroutine is (at
\* work, in Check's first select, in Check's second select, or returned),
\* the events it has sent, the events taken from its channel, and whether it
\* has called Check.
NewRun == [ctx |-> "live", phase |-> "work", emitted |-> 0, taken |-> 0,
           checked |-> FALSE]
RunIds == 1..Len(runs)

\* agentEventMsg (model.go:169) of the ev-th event of Run r, sent by the
\* command ("cmd") or by the forwarding goroutine ("fwd");
\* permissionRequestMsg (model.go:172).
AgentEventMsg(r, ev, terminal, by) ==
    [kind |-> "agent", run |-> r, ev |-> ev, terminal |-> terminal, by |-> by,
     request |-> NoRequest]
PermissionRequestMsg(request) ==
    [kind |-> "perm", run |-> 0, ev |-> 0, terminal |-> FALSE, by |-> "cmd",
     request |-> request]

\* model.go:123-130: Init starts one listenForPermissions command.
InitApp ==
    /\ InitAgent({"build"}, {1}, {"tools"})
    /\ variant = "responses"
    /\ NoStream
    /\ agentCancel = 0
    /\ runs = <<>>
    /\ listeners = 1
    /\ tuiMsgs = {}
    /\ handled = <<>>
    /\ answered = {}
    /\ FnIdle

\* model.go:277-288, 306-350: the Submit key, unless a Run is taken to be
\* under way, starts a Run with a new context; the command waits for the
\* Run's first event.
KeySubmit ==
    /\ ~thinking
    /\ permReq = NoRequest
    /\ Len(runs) < MaxAppRuns
    /\ thinking' = TRUE
    /\ runs' = Append(runs, NewRun)
    /\ handled' = Append(handled, <<>>)
    /\ agentCancel' = Len(runs) + 1
    /\ UNCHANGED <<appFrame, requestCh, permReq, listeners, tuiMsgs, answered>>

\* model.go:246-253: the Cancel key.
KeyCancel ==
    /\ thinking
    /\ agentCancel # 0
    /\ permReq = NoRequest
    /\ runs' = [runs EXCEPT ![agentCancel].ctx = "cancelled"]
    /\ agentCancel' = 0
    /\ thinking' = FALSE
    /\ listeners' = listeners + 1
    /\ UNCHANGED <<appFrame, requestCh, permReq, tuiMsgs, handled, answered>>

\* The Run's goroutine sends an event that is not its last.
RunEmit(r) ==
    /\ runs[r].phase = "work"
    /\ runs[r].emitted < MaxRunEvents - 1
    /\ runs' = [runs EXCEPT ![r].emitted = @ + 1]
    /\ UNCHANGED <<appFrame, requestCh, permReq, thinking, agentCancel, listeners,
                   tuiMsgs, handled, answered>>

\* The Run's goroutine sends its terminal event and closes the channel
\* (agent.go:108-111).
RunEnd(r) ==
    /\ runs[r].phase = "work"
    /\ runs' = [runs EXCEPT ![r].emitted = @ + 1, ![r].phase = "ended"]
    /\ UNCHANGED <<appFrame, requestCh, permReq, thinking, agentCancel, listeners,
                   tuiMsgs, handled, answered>>

\* bash.go:161-176: the Run calls Check for a tool that is not allowlisted.
RunCheck(r) ==
    /\ runs[r].phase = "work"
    /\ ~runs[r].checked
    /\ runs' = [runs EXCEPT ![r].phase = "checkSend", ![r].checked = TRUE]
    /\ UNCHANGED <<appFrame, requestCh, permReq, thinking, agentCancel, listeners,
                   tuiMsgs, handled, answered>>

\* bash.go:179-180
RunPublish(r) ==
    /\ runs[r].phase = "checkSend"
    /\ Len(requestCh) < RequestChCap
    /\ requestCh' = Append(requestCh, Request("bash", r))
    /\ runs' = [runs EXCEPT ![r].phase = "checkWait"]
    /\ UNCHANGED <<appFrame, permReq, thinking, agentCancel, listeners, tuiMsgs,
                   handled, answered>>

\* bash.go:181-183
RunPublishCancelled(r) ==
    /\ runs[r].phase = "checkSend"
    /\ runs[r].ctx = "cancelled"
    /\ runs' = [runs EXCEPT ![r].phase = "work"]
    /\ UNCHANGED <<appFrame, requestCh, permReq, thinking, agentCancel, listeners,
                   tuiMsgs, handled, answered>>

\* bash.go:187-194
RunResponse(r) ==
    /\ runs[r].phase = "checkWait"
    /\ r \in answered
    /\ runs' = [runs EXCEPT ![r].phase = "work"]
    /\ UNCHANGED <<appFrame, requestCh, permReq, thinking, agentCancel, listeners,
                   tuiMsgs, handled, answered>>

\* bash.go:195-197
RunWaitCancelled(r) ==
    /\ runs[r].phase = "checkWait"
    /\ runs[r].ctx = "cancelled"
    /\ runs' = [runs EXCEPT ![r].phase = "work"]
    /\ UNCHANGED <<appFrame, requestCh, permReq, thinking, agentCancel, listeners,
                   tuiMsgs, handled, answered>>

\* model.go:353-357, 369: the command takes the Run's first event; it will
\* return it as its message.
CmdFirstEvent(r) ==
    /\ runs[r].taken = 0
    /\ runs[r].emitted > 0
    /\ runs' = [runs EXCEPT ![r].taken = 1]
    /\ tuiMsgs' = tuiMsgs \cup
          {AgentEventMsg(r, 1, runs[r].phase = "ended" /\ runs[r].emitted = 1, "cmd")}
    /\ UNCHANGED <<appFrame, requestCh, permReq, thinking, agentCancel, listeners,
                   handled, answered>>

\* model.go:360-367: the forwarding goroutine, started by the command before
\* it returns, takes the next event and calls program.Send, which returns
\* when the event loop has taken the message.
Forward(r) ==
    /\ runs[r].taken > 0
    /\ runs[r].taken < runs[r].emitted
    /\ \A msg \in tuiMsgs : ~(msg.kind = "agent" /\ msg.run = r /\ msg.by = "fwd")
    /\ runs' = [runs EXCEPT ![r].taken = @ + 1]
    /\ tuiMsgs' = tuiMsgs \cup
          {AgentEventMsg(r, runs[r].taken + 1,
                         runs[r].phase = "ended" /\ runs[r].emitted = runs[r].taken + 1,
                         "fwd")}
    /\ UNCHANGED <<appFrame, requestCh, permReq, thinking, agentCancel, listeners,
                   handled, answered>>

\* model.go:152-161: a listener takes a request from the request channel; it
\* will return it as its message.
ListenerTakes ==
    /\ listeners > 0
    /\ requestCh # <<>>
    /\ listeners' = listeners - 1
    /\ requestCh' = Tail(requestCh)
    /\ tuiMsgs' = tuiMsgs \cup {PermissionRequestMsg(Head(requestCh))}
    /\ UNCHANGED <<appFrame, permReq, thinking, agentCancel, runs, handled, answered>>

\* model.go:204-205, 376-436: Update takes an agentEventMsg, from whichever
\* goroutine is sending one.
UpdateAgentEvent ==
    \E msg \in tuiMsgs :
       /\ msg.kind = "agent"
       /\ tuiMsgs' = tuiMsgs \ {msg}
       /\ handled' = [handled EXCEPT ![msg.run] = Append(@, msg.ev)]
       /\ IF msg.terminal
          THEN /\ thinking' = FALSE
               /\ listeners' = listeners + 1
          ELSE UNCHANGED <<thinking, listeners>>
       /\ UNCHANGED <<appFrame, requestCh, permReq, agentCancel, runs, answered>>

\* model.go:200-202: Update takes a permissionRequestMsg.
UpdatePermissionRequest ==
    \E msg \in tuiMsgs :
       /\ msg.kind = "perm"
       /\ tuiMsgs' = tuiMsgs \ {msg}
       /\ permReq' = msg.request
       /\ UNCHANGED <<appFrame, requestCh, thinking, agentCancel, runs, listeners,
                      handled, answered>>

\* model.go:439-455: a key that answers the dialog.
KeyAnswer ==
    /\ permReq # NoRequest
    /\ answered' = answered \cup {permReq.req}
    /\ permReq' = NoRequest
    /\ listeners' = listeners + 1
    /\ UNCHANGED <<appFrame, requestCh, thinking, agentCancel, runs, tuiMsgs, handled>>

NextApp ==
    \/ KeySubmit
    \/ KeyCancel
    \/ \E r \in RunIds : RunEmit(r)
    \/ \E r \in RunIds : RunEnd(r)
    \/ \E r \in RunIds : RunCheck(r)
    \/ \E r \in RunIds : RunPublish(r)
    \/ \E r \in RunIds : RunPublishCancelled(r)
    \/ \E r \in RunIds : RunResponse(r)
    \/ \E r \in RunIds : RunWaitCancelled(r)
    \/ \E r \in RunIds : CmdFirstEvent(r)
    \/ \E r \in RunIds : Forward(r)
    \/ ListenerTakes
    \/ UpdateAgentEvent
    \/ UpdatePermissionRequest
    \/ KeyAnswer

SpecApp == InitApp /\ [][NextApp]_vars

\* ============================================================ buildInput

\* What the steps of the specifications below leave alone.
pureFrame == <<agentVars, permVars, obsVars, streamVars, provVars, tuiVars,
               appVars>>

\* The rest of the state in the specifications below: an agent that is not
\* run and an application that is not started.
PureBase ==
    /\ InitAgent({"build"}, {1}, {"tools"})
    /\ variant = "responses"
    /\ NoStream
    /\ AppIdle

\* Messages of a history: message.Message with its role, content (a text, as
\* a sequence of tokens), ToolCalls and ToolResults.
Msg(role, content, calls, results) ==
    [role |-> role, content |-> content, calls |-> calls, results |-> results]
HCall(id, name, input) == [id |-> id, name |-> name, input |-> input]
HResult(id, output) == [id |-> id, output |-> output]
HistoryMessages ==
    {Msg("user", <<"hi">>, <<>>, <<>>),
     Msg("assistant", <<"t">>, <<>>, <<>>),
     Msg("assistant", <<>>, <<>>, <<>>),
     Msg("assistant", <<>>, <<HCall("c1", "ls", <<"x">>)>>, <<>>),
     Msg("assistant", <<"t">>,
         <<HCall("c2", "ls", <<>>), HCall("c1", "bash", <<"x">>)>>, <<>>),
     Msg("tool", <<>>, <<>>, <<>>),
     Msg("tool", <<>>, <<>>, <<HResult("c1", <<"o">>)>>),
     Msg("tool", <<>>, <<>>, <<HResult("c2", <<>>), HResult("c1", <<"o">>)>>),
     Msg("system", <<"s">>, <<>>, <<>>)}

\* Messages in the history of a request.
MaxMessages == 2
Histories ==
    UNION {[1..n -> HistoryMessages] : n \in 0..MaxMessages}

\* respInputItem (part_000:108): the keys an item has, with their values.
RoleItem(role, content) ==
    [keys |-> {"role", "content"}, role |-> role, content |-> content,
     type |-> "", call_id |-> "", name |-> "", text |-> <<>>]
CallItem(call) ==
    [keys |-> {"type", "call_id", "name", "arguments"}, role |-> "",
     content |-> <<>>, type |-> "function_call", call_id |-> call.id,
     name |-> call.name, text |-> call.input]
OutputItem(tr) ==
    [keys |-> {"type", "call_id", "output"}, role |-> "", content |-> <<>>,
     type |-> "function_call_output", call_id |-> tr.id, name |-> "",
     text |-> tr.output]

\* part_000:251-260, 262-270: one item for each ToolCall / ToolResult, in
\* order.
CallItems(calls) == [i \in 1..Len(calls) |-> CallItem(calls[i])]
OutputItems(results) == [i \in 1..Len(results) |-> OutputItem(results[i])]

\* The items of one message, with an assistant text item for every
\* assistant message.
msgItemsAlwaysText(msg) ==
    IF msg.role = "user" THEN <<RoleItem("user", msg.content)>>
    ELSE IF msg.role = "assistant"
    THEN <<RoleItem("assistant", msg.content)>> \o CallItems(msg.calls)
    ELSE IF msg.role = "tool" THEN OutputItems(msg.results)
    ELSE IF msg.role = "system" THEN <<RoleItem("developer", msg.content)>>
    ELSE <<>>

\* part_000:240-278: the switch on the message's role.
msgItems(msg) ==
    IF msg.role = "user" THEN <<RoleItem("user", msg.content)>>
    ELSE IF msg.role = "assistant"
    THEN (IF msg.content # <<>> THEN <<RoleItem("assistant", msg.content)>>
          ELSE <<>>) \o CallItems(msg.calls)
    ELSE IF msg.role = "tool" THEN OutputItems(msg.results)
    ELSE IF msg.role = "system" THEN <<RoleItem("developer", msg.content)>>
    ELSE <<>>

\* part_000:234-281: buildInput ranges over the request's messages.
RECURSIVE buildInput(_)
buildInput(messages) ==
    IF messages = <<>> THEN <<>>
    ELSE msgItems(Head(messages)) \o buildInput(Tail(messages))

InitBuildInput ==
    /\ PureBase
    /\ sendReq \in [systemPrompt : {<<>>, <<"p">>}, messages : Histories]
    /\ respReq = NoBody
    /\ ListIdle
    /\ NewRegistry
    /\ DispIdle
    /\ InputIdle

\* part_000:165-193: SendMessage builds the request body.
BuildRequestBody ==
    /\ ~respReq.built
    /\ respReq' = [instructions |-> sendReq.systemPrompt,
                   input |-> buildInput(sendReq.messages), built |-> TRUE]
    /\ UNCHANGED <<pureFrame, sendReq, modelsResp, listed, tools, order, registered,
                   dispVars, inputVars>>

SpecBuildInput == InitBuildInput /\ [][BuildRequestBody]_vars

\* ============================================================ ListModels

\* A string as the sequence of its bytes.
Chars(str) ==
    CASE str = "" -> <<>>
      [] str = "gpt-" -> <<103, 112, 116, 45>>
      [] str = "o1" -> <<111, 49>>
      [] str = "o3" -> <<111, 51>>
      [] str = "o4" -> <<111, 52>>
      [] str = "chatgpt-" -> <<99, 104, 97, 116, 103, 112, 116, 45>>
      [] str = "gpt-4" -> <<103, 112, 116, 45, 52>>
      [] str = "gpt-3.5" -> <<103, 112, 116, 45, 51, 46, 53>>
      [] str = "gpt" -> <<103, 112, 116>>
      [] str = "GPT-4" -> <<71, 80, 84, 45, 52>>
      [] str = "o1-mini" -> <<111, 49, 45, 109, 105, 110, 105>>
      [] str = "o" -> <<111>>
      [] str = "o5" -> <<111, 53>>
      [] str = "o4-mini" -> <<111, 52, 45, 109, 105, 110, 105>>
      [] str = "chatgpt-4o" -> <<99, 104, 97, 116, 103, 112, 116, 45, 52, 111>>
      [] str = "chatgpt" -> <<99, 104, 97, 116, 103, 112, 116>>
      [] str = "my-gpt-4" -> <<109, 121, 45, 103, 112, 116, 45, 52>>
      [] str = "dall-e-3" -> <<100, 97, 108, 108, 45, 101, 45, 51>>

\* strings.HasPrefix
HasPrefix(str, prefix) ==
    /\ Len(Chars(prefix)) <= Len(Chars(str))
    /\ SubSeq(Chars(str), 1, Len(Chars(prefix))) = Chars(prefix)

\* The order of Go strings: byte by byte, a proper prefix first.
RECURSIVE BytesLess(_, _)
BytesLess(a, b) ==
    IF b = <<>> THEN FALSE
    ELSE IF a = <<>> THEN TRUE
    ELSE IF Head(a) # Head(b) THEN Head(a) < Head(b)
    ELSE BytesLess(Tail(a), Tail(b))
StringLess(a, b) == BytesLess(Chars(a), Chars(b))

\* sort.Strings: the strings in ascending order.
RECURSIVE Insert(_, _)
Insert(sorted, str) ==
    IF sorted = <<>> THEN <<str>>
    ELSE IF StringLess(str, Head(sorted)) THEN <<str>> \o sorted
    ELSE <<Head(sorted)>> \o Insert(Tail(sorted), str)
RECURSIVE SortStrings(_)
SortStrings(strs) ==
    IF strs = <<>> THEN <<>>
    ELSE Insert(SortStrings(SubSeq(strs, 1, Len(strs) - 1)), strs[Len(strs)])

\* part_000:53
supportedModelPrefixes == <<"gpt-", "o1", "o3", "o4", "chatgpt-">>

\* A test that takes every identifier that starts with "o".
isSupportedModelAnyO(id) ==
    \E i \in 1..Len(supportedModelPrefixes) :
       HasPrefix(id, IF supportedModelPrefixes[i] \in {"o1", "o3", "o4"}
                     THEN "o" ELSE supportedModelPrefixes[i])

\* part_000:93-100
isSupportedModel(id) ==
    \E i \in 1..Len(supportedModelPrefixes) :
       HasPrefix(id, supportedModelPrefixes[i])

\* part_000:79-86: the supported identifiers of the catalog, in its order.
RECURSIVE SupportedOf(_)
SupportedOf(data) ==
    IF data = <<>> THEN <<>>
    ELSE (IF isSupportedModel(Head(data)) THEN <<Head(data)>> ELSE <<>>)
         \o SupportedOf(Tail(data))

\* Identifiers a catalog may hold, and the entries of a catalog.
CatalogIds == {"", "gpt-4", "gpt-3.5", "gpt", "GPT-4", "o1-mini", "o", "o5",
               "o4-mini", "o3", "chatgpt-4o", "chatgpt", "my-gpt-4", "dall-e-3"}
MaxCatalog == 3
Catalogs == UNION {[1..n -> CatalogIds] : n \in 0..MaxCatalog}

\* What the request ends in: a response with status 200 and a body that
\* decodes, a transport failure, another status, or a body that does not
\* decode.
Outcomes == {"ok", "transport", "status", "decode"}

InitListModels ==
    /\ PureBase
    /\ BuildIdle
    /\ modelsResp \in [outcome : Outcomes, data : Catalogs]
    /\ listed = NotListed
    /\ NewRegistry
    /\ DispIdle
    /\ InputIdle

\* part_000:56-88
ListModelsReturns ==
    /\ ~listed.returned
    /\ listed' = IF modelsResp.outcome = "ok"
                 THEN [models |-> SortStrings(SupportedOf(modelsResp.data)),
                       err |-> FALSE, returned |-> TRUE]
                 ELSE [models |-> <<>>, err |-> TRUE, returned |-> TRUE]
    /\ UNCHANGED <<pureFrame, sendReq, respReq, modelsResp, tools, order, registered,
                   dispVars, inputVars>>

SpecListModels == InitListModels /\ [][ListModelsReturns]_vars

\* ============================================================== Registry

\* Register calls in one life of a registry.
MaxRegister == 4

\* Tools that may be registered: implementations 1 and 2 of each name.
RegNames == {"ls", "bash", "view"}
RegTools == [name : RegNames, impl : 1..2]

\* Register that appends the name to the order list on every call.
RegisterAlwaysAppends(t) ==
    /\ Len(registered) < MaxRegister
    /\ order' = Append(order, t.name)
    /\ tools' = [n \in (DOMAIN tools) \cup {t.name} |->
                    IF n = t.name THEN t ELSE tools[n]]
    /\ registered' = Append(registered, t)
    /\ UNCHANGED <<pureFrame, sendReq, respReq, modelsResp, listed, dispVars, inputVars>>

\* part_007:163-172
Register(t) ==
    /\ Len(registered) < MaxRegister
    /\ order' = IF t.name \notin DOMAIN tools THEN Append(order, t.name) ELSE order
    /\ tools' = [n \in (DOMAIN tools) \cup {t.name} |->
                    IF n = t.name THEN t ELSE tools[n]]
    /\ registered' = Append(registered, t)
    /\ UNCHANGED <<pureFrame, sendReq, respReq, modelsResp, listed, dispVars, inputVars>>

\* part_007:175-181: the tool and whether the name is registered.
Get(name) ==
    IF name \in DOMAIN tools THEN [tool |-> tools[name], ok |-> TRUE]
    ELSE [tool |-> [name |-> "", impl |-> 0], ok |-> FALSE]

\* part_007:184-194
All == [i \in 1..Len(order) |-> tools[order[i]]]

InitRegistry ==
    /\ PureBase
    /\ BuildIdle
    /\ ListIdle
    /\ NewRegistry
    /\ DispIdle
    /\ InputIdle

NextRegistry == \E t \in RegTools : Register(t)

SpecRegistry == InitRegistry /\ [][NextRegistry]_vars

\* ====================================================== displayLineCount

\* A text is a sequence of runes: "a" stands for a rune one cell wide, "CJK"
\* for a rune two cells wide, "\n" is the newline.
Runes == {"a", "CJK", "\n"}
MaxText == 5
MaxWidth == 3
Texts == UNION {[1..n -> Runes] : n \in 0..MaxText}
Widths == (0 - 1)..MaxWidth

\* runewidth.RuneWidth
RuneWidth(r) == CASE r = "a" -> 1 [] r = "CJK" -> 2 [] OTHER -> 0

\* rw.StringWidth (input.go:167): the cells of a line.
RECURSIVE StringWidth(_)
StringWidth(s) ==
    IF s = <<>> THEN 0 ELSE RuneWidth(Head(s)) + StringWidth(Tail(s))

\* strings.Split(text, "\n") (input.go:166): the pieces between the
\* newlines, one more than there are newlines.
RECURSIVE SplitLines(_, _)
SplitLines(s, cur) ==
    IF s = <<>> THEN <<cur>>
    ELSE IF Head(s) = "\n" THEN <<cur>> \o SplitLines(Tail(s), <<>>)
         ELSE SplitLines(Tail(s), Append(cur, Head(s)))

\* strings.Count(text, "\n") (input.go:163)
RECURSIVE CountNewlines(_)
CountNewlines(s) ==
    IF s = <<>> THEN 0
    ELSE (IF Head(s) = "\n" THEN 1 ELSE 0) + CountNewlines(Tail(s))

\* math.Ceil(float64(a) / float64(b)) for b > 0 and a >= 0; the quotient of
\* two such ints is exact in float64 far beyond the lengths of any text.
Ceil(a, b) == (a \div b) + (IF a % b = 0 THEN 0 ELSE 1)

\* The rows of a line without the cell for the trailing space.
LineRowsNoTrailingSpace(w, wd) == IF w < wd THEN 1 ELSE Ceil(w, wd)

\* input.go:168-174: the rows one line of w cells adds to the total.
LineRows(w, wd) == IF w < wd THEN 1 ELSE Ceil(w + 1, wd)

\* input.go:165-175: the loop over the lines.
RECURSIVE TotalRows(_, _)
TotalRows(ls, wd) ==
    IF ls = <<>> THEN 0
    ELSE LineRows(StringWidth(Head(ls)), wd) + TotalRows(Tail(ls), wd)

\* input.go:159-180
displayLineCount(s, wd) ==
    IF wd <= 0
    THEN (IF 1 > CountNewlines(s) + 1 THEN 1 ELSE CountNewlines(s) + 1)
    ELSE LET total == TotalRows(SplitLines(s, <<>>), wd)
         IN  IF total < 1 THEN 1 ELSE total

InitDisplayLineCount ==
    /\ PureBase
    /\ BuildIdle
    /\ ListIdle
    /\ NewRegistry
    /\ InputIdle
    /\ text \in Texts
    /\ wrapWidth \in Widths
    /\ rows = NoRows

CallDisplayLineCount ==
    /\ rows = NoRows
    /\ rows' = displayLineCount(text, wrapWidth)
    /\ UNCHANGED <<pureFrame, sendReq, respReq, modelsResp, listed, tools, order,
                   registered, text, wrapWidth, inputVars>>

SpecDisplayLineCount == InitDisplayLineCount /\ [][CallDisplayLineCount]_vars

\* ================================================================= Input

\* input.go:14
maxInputHeight == 6

\* Runes a prompt holds at most (the textarea's CharLimit, input.go:28,
\* stands at 4096).
MaxInput == 6

\* textarea.SetWidth with the prompt of two cells (input.go:31), no line
\* numbers (input.go:30) and no frame: at least one cell is left for text.
TaSetWidth(w) == (IF w > 3 THEN w ELSE 3) - 2

\* textarea.SetHeight with MaxHeight = maxInputHeight (input.go:29).
TaSetHeight(h) == IF h < 1 THEN 1 ELSE IF h > maxInputHeight THEN maxInputHeight ELSE h

\* The widths the textarea may have, and the widths SetWidth stores that
\* give them (width - 6 cells go to the textarea, 2 of them to the prompt);
\* 0 is the width of an Input whose SetWidth was never called.
TaWidths == 1..MaxWidth
InputWidths == {0} \cup {w + 8 : w \in TaWidths}

\* The messages of Update: a typed rune, the enter key, backspace, and a
\* message the textarea ignores.
InputMsgs == {"a", "CJK", "enter", "backspace", "other"}

\* textarea.Update (input.go:83) with the cursor at the end of the value: a
\* rune is inserted up to the character limit, enter inserts a newline
\* unless the value has MaxHeight lines, backspace deletes the last rune.
TaUpdate(v, m) ==
    CASE m \in {"a", "CJK"} -> IF Len(v) < MaxInput THEN Append(v, m) ELSE v
      [] m = "enter" ->
            IF CountNewlines(v) + 1 >= maxInputHeight \/ Len(v) >= MaxInput
            THEN v ELSE Append(v, "\n")
      [] m = "backspace" -> IF v = <<>> THEN v ELSE SubSeq(v, 1, Len(v) - 1)
      [] OTHER -> v

\* An Update that leaves the textarea at the height it was expanded to
\* (input.go:80).
KeepExpanded(v, w) == maxInputHeight

\* input.go:86-93: the rows of the value, from 1 to maxInputHeight.
ShrinkToFit(v, w) ==
    LET lines == displayLineCount(v, w)
    IN  IF lines < 1 THEN 1
        ELSE IF lines > maxInputHeight THEN maxInputHeight ELSE lines

\* input.go:24-63: a textarea of height 1 with no text, at the width
\* textarea.New gave it.
NewInput ==
    /\ width = 0
    /\ taValue = <<>>
    /\ taWidth \in TaWidths
    /\ taHeight = TaSetHeight(1)
    /\ lastOp = "new"

inputFrame == <<pureFrame, sendReq, respReq, modelsResp, listed, tools, order,
                registered, dispVars>>

\* input.go:103-105
SetWidth(w) ==
    /\ width' = w
    /\ lastOp' = "setwidth"
    /\ UNCHANGED <<inputFrame, taValue, taWidth, taHeight>>

\* input.go:66-97
Update(m) ==
    LET w == IF width > 0 THEN TaSetWidth(width - 6) ELSE taWidth
        v == TaUpdate(taValue, m)
    IN /\ taWidth' = w
       /\ taValue' = v
       /\ taHeight' = TaSetHeight(ShrinkToFit(v, w))
       /\ lastOp' = "update"
       /\ UNCHANGED <<inputFrame, width>>

\* Input.Reset, input.go:133-136
InputReset ==
    /\ taValue' = <<>>
    /\ taHeight' = TaSetHeight(1)
    /\ lastOp' = "reset"
    /\ UNCHANGED <<inputFrame, width, taWidth>>

InitInput ==
    /\ PureBase
    /\ BuildIdle
    /\ ListIdle
    /\ NewRegistry
    /\ DispIdle
    /\ NewInput

NextInput ==
    \/ \E w \in InputWidths : SetWidth(w)
    \/ \E m \in InputMsgs : Update(m)
    \/ InputReset

SpecInput == InitInput /\ [][NextInput]_vars

\* ================================================================ claims ==

\* Reading the current turn's trace.
PersistAt(role) == {i \in At(trace, "PersistMessage") : trace[i].data.role = role}
TerminalAt == At(trace, "AgentDone") \cup At(trace, "AgentError")
StreamEventTypes == {"StreamText", "ToolCallStart", "ToolCallEnd"}
GateAndToolTypes == {"Check", "Publish", "CheckReturn", "Execute"}
\* The trace entries of type `type` made for the turn's k-th call.
ForCall(type, k) == {i \in At(trace, type) : trace[i].idx = k}
\* The position of entry i among the entries of its type.
Rank(i) == Cardinality({j \in At(trace, trace[i].type) : j <= i})
\* The Run ended with the error of the iteration bound.
MaxIterError ==
    \E i \in At(trace, "AgentError") :
        trace[i].data = "agent reached maximum iterations"
\* The user's answers to the request of the Check that returned at r.
AnswersTo(r) == {a \in At(trace, "Answer") : a < r /\ trace[a].req = trace[r].req}
\* The calls of the turn whose Check returned Deny on the user's Deny answer.
UserDeniedCalls ==
    {trace[r].idx : r \in {q \in At(trace, "CheckReturn") :
                              /\ trace[q].data.resp = Deny
                              /\ \E a \in AnswersTo(q) : trace[a].data = Deny}}

\* ----------------------------------------------------------------------- C1
\* C1: every Run - whatever the provider streams, the tools return, the user
\* answers, and whenever the context is cancelled - sends exactly one
\* terminal event (AgentDone or AgentError), sends no event after it, and
\* closes the channel after it: never more than one terminal event, nothing
\* after it, runLoop has returned exactly when the terminal event is sent,
\* and the channel is closed only with the terminal event sent.
C1_OneTerminalEvent ==
    /\ nTerminal <= 1
    /\ ~afterTerminal
    /\ (nTerminal = 1) <=> (pc \in {"returned", "closed"})
    /\ pc = "closed" => \E t \in TerminalAt :
                           \A j \in (t + 1)..Len(trace) : ~IsEvent(trace[j])

\* A Run cancelled while its tools were running, closed after its one
\* terminal event.
C1_Witness ==
    /\ pc = "closed"
    /\ nTerminal = 1
    /\ cancelled
    /\ Len(toolResults) > 0
    /\ At(trace, "AgentError") # {}

\* ----------------------------------------------------------------------- C2
\* C2: for every wire input (completion signal, failure signal, body ended
\* early, read error, context cancelled) processStream sends exactly one
\* terminal StreamEvent (Done or Error), sends nothing after it, and the
\* channel is closed exactly once and only after the terminal event.
C2_StreamOneTerminalEvent ==
    /\ sTerminal <= 1
    /\ ~sAfterTerminal
    /\ nClose <= 1
    /\ (sTerminal = 1) <=> (spc \in {"returned", "closed"})
    /\ (nClose = 1) <=> (spc = "closed")
    /\ sTerminal = 1 => out[Len(out)].type \in STerminalTypes

\* The body ended without a completion signal while a call was still being
\* accumulated; the stream ended with Done and was closed.
C2_Witness ==
    /\ spc = "closed"
    /\ nClose = 1
    /\ PresentKeys # {}
    /\ out[Len(out)].type = "Done"

\* ----------------------------------------------------------------------- C3
\* C3: in a turn that requests a tool call the events come in this order:
\* the stream-text and tool-call-start/end events, one persist event with
\* the assistant message and its calls, one tool-result event per call in
\* call order, one persist event with the tool-role message; no Check and no
\* Execute begins before the assistant persist event.
C3_TurnOrder ==
    LET pa == PersistAt("assistant")
        pt == PersistAt("tool")
    IN /\ Cardinality(pa) <= 1
       /\ Cardinality(pt) <= 1
       /\ \A i \in 1..Len(trace) :
            /\ trace[i].type \in StreamEventTypes => \A j \in pa : i < j
            /\ trace[i].type \in GateAndToolTypes \cup {"ToolResult"} =>
                 /\ \E j \in pa : j < i
                 /\ \A j \in pt : i < j
       /\ \A j \in pa : /\ trace[j].data.calls = toolCalls
                        /\ trace[j].data.calls # <<>>
                        /\ trace[j].data.content = textContent
       /\ \A i \in At(trace, "ToolResult") :
            /\ Rank(i) <= Len(toolCalls)
            /\ trace[i].idx = Rank(i)
            /\ trace[i].id = toolCalls[Rank(i)].id
            /\ trace[i].name = toolCalls[Rank(i)].name
       /\ \A j \in pt : /\ \E a \in pa : a < j
                        /\ CountOf(trace, "ToolResult") = Len(toolCalls)
       /\ pc \in {"tools", "check", "checkSend", "checkWait", "execute"} =>
             pa # {} /\ pt = {}
       /\ pc = "loop" /\ iteration > 0 => pa # {} /\ pt # {}

\* A finished turn of two calls, one of which went through the gate.
C3_Witness ==
    /\ PersistAt("tool") # {}
    /\ Len(toolCalls) = 2
    /\ At(trace, "Check") # {}
    /\ At(trace, "Execute") # {}

\* ----------------------------------------------------------------------- C4
\* C4: when a turn's tool execution completes, the tool-role message holds
\* exactly one ToolResult per ToolCall of the assistant message, in the same
\* order, with the same call id and tool name; exactly one tool-result event
\* is sent per executed call; an unknown tool, a failed Execute, a denial
\* and a mode rejection each give an error-flagged result, and none of them
\* ends the Run (after a tool result the Run ends only on cancellation or
\* after the turn's tool-role message).
C4_OneResultPerCall ==
    /\ \A j \in PersistAt("tool") : \A a \in PersistAt("assistant") :
         LET results == trace[j].data.results
             calls == trace[a].data.calls
         IN /\ Len(results) = Len(calls)
            /\ \A k \in 1..Len(calls) : /\ results[k].id = calls[k].id
                                        /\ results[k].name = calls[k].name
    /\ PersistAt("tool") # {} => PersistAt("assistant") # {}
    /\ CountOf(trace, "ToolResult") = Len(toolResults)
    /\ \A k \in 1..Len(toolResults) :
         LET c == toolCalls[k]
             r == toolResults[k]
         IN /\ Cardinality(ForCall("ToolResult", k)) = 1
            /\ \A i \in ForCall("ToolResult", k) :
                 /\ trace[i].data = r.output
                 /\ trace[i].err = r.isError
                 /\ trace[i].name = c.name
            /\ r.id = c.id /\ r.name = c.name
            /\ ~RegistryHas(c.name) => r.isError
            /\ (mode = "plan" /\ RequiresPermission(c.name)) => r.isError
            /\ (\E i \in ForCall("CheckReturn", k) : trace[i].data.resp = Deny)
                  => r.isError
            /\ (\E i \in ForCall("Execute", k) : ~trace[i].data.ok) => r.isError
    /\ \A t \in TerminalAt : \A i \in At(trace, "ToolResult") :
         i < t => \/ \E p \in PersistAt("tool") : i < p /\ p < t
                  \/ cancelled /\ trace[t].type = "AgentError"
                               /\ trace[t].data = "context canceled"

\* A finished turn of two calls: the first denied by the user, the second
\* failed in Execute.
C4_Witness ==
    /\ PersistAt("tool") # {}
    /\ Len(toolResults) = 2
    /\ 1 \in UserDeniedCalls
    /\ \E i \in ForCall("Execute", 2) : ~trace[i].data.ok
    /\ pc = "loop"

\* ----------------------------------------------------------------------- C5
\* The result executeTool gives the k-th call when the user denies it.
DeniedResultOf(k) ==
    [id |-> toolCalls[k].id, name |-> toolCalls[k].name,
     output |-> <<"Permission denied by user.">>, isError |-> TRUE]

\* What C5 says of every call the user denied: it has a result, the fixed
\* error-flagged one, and was not executed; the other calls are processed
\* too and one tool-role message aggregates all N results.
DenialBecomesResult ==
    /\ \A k \in UserDeniedCalls :
         /\ k <= Len(toolResults)
         /\ toolResults[k] = DeniedResultOf(k)
         /\ ForCall("Execute", k) = {}
    /\ (UserDeniedCalls # {} /\ ~cancelled) =>
         /\ pc \in {"tools", "check", "checkSend", "checkWait", "execute",
                    "loop", "returned", "closed"}
         /\ pc \in {"loop", "returned", "closed"} =>
              /\ Cardinality(PersistAt("tool")) = 1
              /\ \A j \in PersistAt("tool") :
                   /\ trace[j].data.results = toolResults
                   /\ Len(toolResults) = Len(toolCalls)
              /\ currentHistory[Len(currentHistory)].role = "tool"
              /\ Len(currentHistory) = 1 + 2 * iteration

\* C5 as stated: with N calls of which M are denied by the user, all N are
\* processed (a denied one becomes the error-flagged result "Permission
\* denied by user."), exactly one aggregated tool-result message is
\* appended, and a new model turn is started: the Run does not end before
\* SendMessage is called again.
C5_DenialStartsNewTurn ==
    /\ DenialBecomesResult
    /\ (UserDeniedCalls # {} /\ ~cancelled /\ pc \in {"returned", "closed"})
          => sendCount > iteration

\* C5, amended: with N calls of which M are denied by the user, all N are
\* processed (a denied one becomes the error-flagged result "Permission
\* denied by user."), exactly one aggregated tool-result message is
\* appended, and the loop goes round: a new model turn is started if fewer
\* than maxIterations turns have been made, otherwise the Run ends with the
\* maximum-iterations error. The denial itself never ends the Run.
C5_DenialGoesRound ==
    /\ DenialBecomesResult
    /\ (UserDeniedCalls # {} /\ ~cancelled /\ pc = "loop"
          /\ iteration < maxIterations) => ENABLED SendMessageOk
    /\ (UserDeniedCalls # {} /\ ~cancelled /\ pc \in {"returned", "closed"})
          => \/ sendCount > iteration
             \/ iteration = maxIterations /\ MaxIterError

\* A finished turn of two calls, one of them denied by the user, with a new
\* model turn about to start.
C5_Witness ==
    /\ Len(toolCalls) = 2
    /\ Cardinality(UserDeniedCalls) = 1
    /\ pc = "loop"
    /\ ~cancelled
    /\ iteration < maxIterations
    /\ PersistAt("tool") # {}

\* ----------------------------------------------------------------------- C6
\* C6: Run makes at most maxIterations SendMessage calls, maxIterations
\* being the configured value when it is > 0 and 25 otherwise; when the
\* maxIterations-th turn has requested a tool call (and its tools have run),
\* the Run ends with the maximum-iterations error and starts no further
\* turn; so with maxIterations = 1 and a model that always requests a tool
\* call exactly one provider call is made.
C6_IterationCap ==
    LET cap == IF cfgMaxIterations > 0 THEN cfgMaxIterations ELSE 25
    IN /\ sendCount <= cap
       /\ iteration <= cap
       /\ MaxIterError => /\ sendCount = cap
                          /\ iteration = cap
                          /\ toolCalls # <<>>
                          /\ PersistAt("tool") # {}
       /\ iteration = cap => /\ pc \in {"loop", "returned", "closed"}
                             /\ sendCount = cap
                             /\ pc # "loop" => MaxIterError

\* An agent configured without a bound stopped by the default: 25 provider
\* calls, each answered with a tool call.
C6_Witness ==
    /\ cfgMaxIterations <= 0
    /\ MaxIterError
    /\ sendCount = 25
    /\ pc = "closed"

\* ----------------------------------------------------------------------- C7
\* C7: in plan mode no tool whose RequiresPermission is true is among the
\* tool declarations of a request, and a call naming such a tool gets the
\* error-flagged "not available in PLAN mode" result, with neither Execute
\* nor the permission gate called for it.
C7_PlanModeReadOnly ==
    mode = "plan" =>
      /\ \A i \in 1..Len(sentTools) : ~RequiresPermission(sentTools[i])
      /\ \A k \in 1..Len(toolResults) : RequiresPermission(toolCalls[k].name) =>
           /\ toolResults[k].isError
           /\ toolResults[k].output =
                 <<"Error: tool is not available in PLAN mode", toolCalls[k].name>>
           /\ \A i \in 1..Len(trace) :
                 trace[i].type \in GateAndToolTypes => trace[i].idx # k
      /\ pc \in {"check", "checkSend", "checkWait", "execute"} =>
           ~RequiresPermission(tc.name)

\* A plan-mode turn that asked for bash and got its result, after a request
\* that declared tools.
C7_Witness ==
    /\ mode = "plan"
    /\ sentTools # <<>>
    /\ \E k \in 1..Len(toolResults) : toolCalls[k].name = "bash"

\* ----------------------------------------------------------------------- C8
\* C8: in build mode Execute of a permission-requiring tool is called for a
\* call only after Check for that same call returned Allow; every such call
\* gets its own Check; a one-time Allow covers exactly one call (a Check
\* that returns Allow for a tool the user never allowed for the session has
\* its own Allow answer, shared with no other Check, and only an
\* AllowForSession answer puts a tool on the allowlist).
C8_ExecuteOnlyAfterAllow ==
    mode = "build" =>
      /\ \A e \in At(trace, "Execute") : RequiresPermission(trace[e].name) =>
           \E r \in ForCall("CheckReturn", trace[e].idx) :
              /\ r < e
              /\ trace[r].data.resp = Allow
              /\ \E c \in ForCall("Check", trace[e].idx) : c < r
      /\ (pc = "execute" /\ RequiresPermission(tc.name)) =>
           \E r \in ForCall("CheckReturn", tcIdx) : trace[r].data.resp = Allow
      /\ \A k \in 1..Len(toolResults) : RequiresPermission(toolCalls[k].name) =>
           /\ Cardinality(ForCall("Check", k)) = 1
           /\ Cardinality(ForCall("CheckReturn", k)) = 1
      /\ \A r \in At(trace, "CheckReturn") : trace[r].data.resp = Allow =>
           \/ trace[r].name \in granted
           \/ /\ \E a \in AnswersTo(r) : trace[a].data = Allow
              /\ \A q \in At(trace, "CheckReturn") :
                    trace[q].req = trace[r].req => q = r
      /\ sessionAllowed \subseteq granted

\* A build-mode turn that executed bash twice, each time on its own one-time
\* Allow.
C8_Witness ==
    /\ mode = "build"
    /\ granted = {}
    /\ Cardinality({e \in At(trace, "Execute") : trace[e].name = "bash"}) = 2
    /\ Cardinality({a \in At(trace, "Answer") : trace[a].data = Allow}) = 2

\* ----------------------------------------------------------------------- C9
\* C9: Check never defaults to Allow: it returns Allow only if the tool was
\* on the session allowlist when Check looked, or the user answered Allow or
\* AllowForSession to this Check's own request; a Deny answer, and a
\* cancellation at either wait, give Deny.
C9_NeverDefaultsToAllow ==
    \A r \in At(trace, "CheckReturn") :
       LET ret == trace[r].data.resp
           via == trace[r].data.via
       IN /\ ret \in {Allow, Deny}
          /\ ret = Allow =>
               \/ \E c \in ForCall("Check", trace[r].idx) :
                     c < r /\ trace[c].data.listed
               \/ \E a \in AnswersTo(r) : trace[a].data \in {Allow, AllowForSession}
          /\ (\E a \in AnswersTo(r) : trace[a].data = Deny) => ret = Deny
          /\ via = "cancel" => ret = Deny /\ cancelled

\* The user answered Allow, the context was cancelled, and the select of the
\* second wait took the cancellation: Check returned Deny.
C9_Witness ==
    \E r \in At(trace, "CheckReturn") :
       /\ trace[r].data.via = "cancel"
       /\ trace[r].data.resp = Deny
       /\ ForCall("Publish", trace[r].idx) # {}
       /\ \E a \in AnswersTo(r) : trace[a].data = Allow

\* ---------------------------------------------------------------------- C10
\* C10: a Check called with a context that is already cancelled returns
\* Deny and never publishes a request on the request channel.
C10_CancelledCheckDeniesUnpublished ==
    \A c \in At(trace, "Check") : trace[c].err =>
       /\ ForCall("Publish", trace[c].idx) = {}
       /\ \A r \in ForCall("CheckReturn", trace[c].idx) : trace[r].data.resp = Deny

\* ---------------------------------------------------------------------- C11
\* C11: Check never blocks forever under cancellation: once the context is
\* cancelled while Check is blocked publishing its request or waiting for
\* the response, Check returns, whether or not the TUI ever takes the
\* request or answers it; and a Check that returns without the tool having
\* been listed and with no answer to its request returns Deny.
C11_CheckReturnsOnCancel ==
    /\ [](\A r \in At(trace, "CheckReturn") :
            (/\ AnswersTo(r) = {}
             /\ \A c \in ForCall("Check", trace[r].idx) : ~trace[c].data.listed)
               => trace[r].data.resp = Deny)
    /\ (cancelled /\ pc \in {"checkSend", "checkWait"})
          ~> (pc \notin {"checkSend", "checkWait"})

\* A Check that found the request channel full, the TUI never having taken
\* the request in it, returned Deny on cancellation without publishing.
C11_Witness ==
    /\ Len(requestCh) = RequestChCap
    /\ permReq = NoRequest
    /\ \E r \in At(trace, "CheckReturn") :
          /\ trace[r].data.via = "cancel"
          /\ trace[r].data.resp = Deny
          /\ ForCall("Publish", trace[r].idx) = {}
          /\ At(trace, "Answer") = {}

\* ---------------------------------------------------------------------- C12
\* The step in which Check receives the user's response.
ResponseReceived ==
    /\ pc = "checkWait"
    /\ respCh[curReq] # <<>>
    /\ respCh'[curReq] = Tail(respCh[curReq])

\* How the allowlist changes, and what a Check does with it:
\* an AllowForSession response adds the call's tool name and nothing else;
\* an Allow or Deny response leaves the allowlist as it is; the allowlist
\* changes in no other step except a Reset, which empties it; a Check that
\* finds its tool name listed goes straight on to Execute and publishes
\* nothing, whatever the call's id and input.
AllowlistStep ==
    /\ ResponseReceived =>
         sessionAllowed' = IF Head(respCh[curReq]) = AllowForSession
                           THEN sessionAllowed \cup {tc.name}
                           ELSE sessionAllowed
    /\ sessionAllowed' # sessionAllowed =>
         \/ ResponseReceived /\ Head(respCh[curReq]) = AllowForSession
         \/ sessionAllowed' = {} /\ UNCHANGED <<agentVars, trace, respCh, requestCh>>
    /\ (pc = "check" /\ pc' # "check") =>
         IF IsAllowed(tc.name)
         THEN pc' = "execute" /\ UNCHANGED <<requestCh, respCh>>
         ELSE pc' = "checkSend"

\* C12: after the user answers AllowForSession for tool T that Check
\* returns Allow, and every later Check for T returns Allow at once without
\* publishing a request, until Reset; Allow and Deny answers never change
\* the allowlist; the allowlist is keyed by the tool name only; only Reset
\* removes entries.
C12_SessionMemoization ==
    /\ [](\A r \in At(trace, "CheckReturn") :
            (\E a \in AnswersTo(r) : /\ trace[r].data.via = "answer"
                                     /\ trace[a].data = AllowForSession)
               => trace[r].data.resp = Allow)
    /\ [](\A c \in At(trace, "Check") : trace[c].data.listed =>
            /\ ForCall("Publish", trace[c].idx) = {}
            /\ c < Len(trace)
            /\ trace[c + 1].type = "CheckReturn"
            /\ trace[c + 1].idx = trace[c].idx
            /\ trace[c + 1].data.resp = Allow)
    /\ [][AllowlistStep]_vars

\* The turn's first call of bash was answered AllowForSession; its second
\* call of bash, with another call id, found bash listed.
C12_Witness ==
    /\ \E r \in ForCall("CheckReturn", 1) :
          /\ trace[r].name = "bash"
          /\ \E a \in AnswersTo(r) : trace[a].data = AllowForSession
    /\ \E c \in ForCall("Check", 2) :
          /\ trace[c].name = "bash"
          /\ trace[c].data.listed
          /\ trace[c].id # toolCalls[1].id
    /\ Len(toolResults) = 2

\* ---------------------------------------------------------------------- C13
\* Positions of the stream's events of one type.
SAt(type) == {i \in 1..Len(out) : out[i].type = type}

\* The stream ended by a completion signal, a failure signal, or the end of
\* the body (not by cancellation, not by a read error).
FailureSignals == {<<"response failed">>, <<"OpenAI API error", "code", "message">>,
                   <<"response incomplete">>}
EndedBySignalOrEOF ==
    /\ spc \in {"returned", "closed"}
    /\ out # <<>>
    /\ \/ out[Len(out)].type = "Done"
       \/ out[Len(out)].type = "Error" /\ out[Len(out)].input \in FailureSignals

\* C13: flush-on-close: when the stream ends by a completion signal, a
\* failure signal or the end of the body, every call that was started has,
\* after its (last) tool-call-start and before the terminal event, exactly
\* one tool-call-end: no open call is dropped.
C13_FlushOnClose ==
    EndedBySignalOrEOF =>
       \A i \in SAt("ToolCallStart") :
          (\A k \in SAt("ToolCallStart") : out[k].id = out[i].id => k <= i)
             => Cardinality({j \in SAt("ToolCallEnd") :
                                /\ j > i
                                /\ j < Len(out)
                                /\ out[j].id = out[i].id}) = 1

\* ---------------------------------------------------------------------- C14
\* The turn's stream was consumed to its close (it did not end in a stream
\* error).
TurnStreamClosed == PersistAt("assistant") # {} \/ At(trace, "AgentDone") # {}

\* C14: for every sequence of provider events in a turn, the agent emits as
\* many tool-call-start / tool-call-end pairs as there are distinct call
\* ids, every tool-call-end follows the tool-call-start of its id, and no
\* start is left without its end.
C14_StartEndPairs ==
    TurnStreamClosed =>
       LET starts == At(trace, "ToolCallStart")
           ends == At(trace, "ToolCallEnd")
           ids == {trace[i].id : i \in starts \cup ends}
       IN /\ Cardinality(starts) = Cardinality(ids)
          /\ Cardinality(ends) = Cardinality(ids)
          /\ \A e \in ends : \E b \in starts : b < e /\ trace[b].id = trace[e].id
          /\ \A b \in starts : \E e \in ends : b < e /\ trace[b].id = trace[e].id

\* ---------------------------------------------------------------------- C15
\* The concatenation of the turn's stream-text events up to position n.
RECURSIVE TextUpTo(_)
TextUpTo(n) ==
    IF n = 0 THEN <<>>
    ELSE TextUpTo(n - 1) \o (IF trace[n].type = "StreamText" THEN trace[n].data
                             ELSE <<>>)

\* The token counts of the last done event the provider's stream carried in
\* the turn, zero if it carried none.
ReportedUsage ==
    LET dones == At(trace, "ProviderDone")
    IN IF dones = {} THEN 0
       ELSE trace[CHOOSE d \in dones : \A x \in dones : x <= d].data

\* C15: a turn that ends with zero tool calls has no persist event and ends
\* the Run with exactly one done event, whose message holds the turn's text
\* deltas concatenated in order (each delta was sent as its own stream-text
\* event) and the token counts the stream's done event reported, zero if
\* none.
C15_DoneCarriesTextAndUsage ==
    /\ CountOf(trace, "AgentDone") <= 1
    /\ \A d \in At(trace, "AgentDone") :
         /\ At(trace, "PersistMessage") = {}
         /\ At(trace, "AgentError") = {}
         /\ trace[d].data.role = "assistant"
         /\ trace[d].data.calls = <<>>
         /\ trace[d].data.content = TextUpTo(d)
         /\ trace[d].data.tokens = ReportedUsage
         /\ At(trace, "ToolCallEnd") = {}
    /\ (sendCount > 0 /\ pc \in {"returned", "closed"} /\ toolCalls = <<>>
          /\ At(trace, "AgentError") = {})
         => CountOf(trace, "AgentDone") = 1

\* A Run ended by a turn of two text deltas whose stream reported usage.
C15_Witness ==
    /\ pc = "closed"
    /\ \E d \in At(trace, "AgentDone") :
          /\ Len(trace[d].data.content) = 2
          /\ trace[d].data.tokens = 15
    /\ CountOf(trace, "StreamText") = 2

\* ---------------------------------------------------------------------- C16
\* The causes of an error event that carry the context's cancellation: the
\* loop's own ctx.Err(), and the error event of a stream (the adapters send
\* ctx.Err() when they see the cancellation).
CancellationCauses == {"context canceled", "stream error"}

\* C16: when the context is cancelled before Run emits its terminal event,
\* that terminal event is an error event carrying the cancellation cause:
\* never a done event, never another error.
C16_CancelEndsInCancelError ==
    [][(cancelled /\ nTerminal' > nTerminal) =>
          /\ trace'[Len(trace')].type = "AgentError"
          /\ trace'[Len(trace')].data \in CancellationCauses]_vars

\* ---------------------------------------------------------------------- C17
\* The trace entries made for the turn's calls (those with a call index).
CallEntries == {i \in 1..Len(trace) : trace[i].idx > 0}

\* The tool loop's step at the check before call k with the context already
\* cancelled: it starts nothing for call k, it ends the Run with an error
\* event.
CancelledBeforeCallStep ==
    (pc = "tools" /\ tcIdx <= Len(toolCalls) /\ cancelled
       /\ <<pc, tcIdx, toolResults>>' # <<pc, tcIdx, toolResults>>)
      => /\ pc' = "returned"
         /\ tcIdx' = tcIdx
         /\ toolResults' = toolResults
         /\ trace' = Append(trace, ErrorEvent("context canceled"))

\* C17: the calls of a turn run strictly one after the other in the order
\* the agent recorded them (all that is done for call k comes before
\* anything done for call k+1, and ends with k's tool-result event); if the
\* context is already cancelled at the check before call k, no Check or
\* Execute is started for call k or a later one, no tool-result event is
\* sent for them, no tool-role message is produced for the turn, and the
\* Run ends with an error event.
C17_SequentialAndCancelAborts ==
    /\ [](/\ \A i, j \in CallEntries : i < j => trace[i].idx <= trace[j].idx
          /\ \A i \in CallEntries :
               /\ trace[i].idx <= Len(toolCalls)
               /\ trace[i].id = toolCalls[trace[i].idx].id
               /\ trace[i].type = "ToolResult" =>
                    \A j \in CallEntries : trace[j].idx = trace[i].idx => j <= i
          /\ \A i \in CallEntries :
               \/ trace[i].idx < tcIdx
               \/ trace[i].idx = tcIdx
                    /\ pc \in {"check", "checkSend", "checkWait", "execute"}
          /\ (pc \in {"returned", "closed"} /\ PersistAt("assistant") # {}
                /\ tcIdx <= Len(toolCalls))
               => /\ PersistAt("tool") = {}
                  /\ Len(toolResults) = tcIdx - 1
                  /\ At(trace, "AgentError") # {}
                  /\ At(trace, "AgentDone") = {})
    /\ [][CancelledBeforeCallStep]_vars

\* The context was cancelled while the first of two calls ran: the first
\* has its result, the second was never started, the Run ended in error.
C17_Witness ==
    /\ pc = "closed"
    /\ cancelled
    /\ Len(toolCalls) = 2
    /\ Len(toolResults) = 1
    /\ tcIdx = 2
    /\ ForCall("Execute", 1) # {}
    /\ \E t \in At(trace, "AgentError") : trace[t].data = "context canceled"

\* ---------------------------------------------------------------------- C18
\* The failures of the provider that end a Run.
ProviderFailures == {"LLM request failed", "stream error"}

\* The step in which SendMessage is called and returns an error: the one
\* error event is sent and the loop has returned.
SendMessageErrorStep ==
    (sendCount' = sendCount + 1 /\ pc' # "stream")
      => /\ pc' = "returned"
         /\ trace' = Append(trace, ErrorEvent("LLM request failed"))
         /\ nTerminal' = nTerminal + 1
         /\ UNCHANGED <<toolResults, currentHistory, iteration>>

\* The step in which the loop takes a terminal error event from the stream.
StreamErrorStep ==
    (pc = "stream" /\ pc' = "returned"
       /\ trace'[Len(trace')].type = "AgentError")
      => /\ trace' = Append(trace, ErrorEvent("stream error"))
         /\ nTerminal' = nTerminal + 1
         /\ UNCHANGED <<toolResults, currentHistory, iteration, sendCount>>

\* C18: when SendMessage returns an error, or the stream delivers a
\* terminal error event, Run emits exactly one error event carrying that
\* failure, calls SendMessage no more, executes no tool and emits no persist
\* and no done event for that turn.
C18_ProviderFailureEndsRun ==
    /\ [](\A t \in At(trace, "AgentError") : trace[t].data \in ProviderFailures =>
            /\ CountOf(trace, "AgentError") = 1
            /\ At(trace, "AgentDone") = {}
            /\ pc \in {"returned", "closed"}
            /\ \A j \in (t + 1)..Len(trace) : ~IsEvent(trace[j])
            /\ trace[t].data = "stream error" =>
                 /\ At(trace, "PersistMessage") = {}
                 /\ At(trace, "Execute") = {}
                 /\ At(trace, "Check") = {}
                 /\ At(trace, "ToolResult") = {}
                 /\ toolResults = <<>>
                 /\ Len(currentHistory) = 1 + 2 * iteration)
    /\ [][SendMessageErrorStep]_vars
    /\ [][StreamErrorStep]_vars
    /\ [][nTerminal > 0 => UNCHANGED <<sendCount, toolResults, currentHistory>>]_vars

\* A stream that delivered a complete tool call and then a terminal error:
\* the Run ended with the error, the call was not executed.
C18_Witness ==
    /\ pc = "closed"
    /\ toolCalls # <<>>
    /\ \E t \in At(trace, "AgentError") : trace[t].data = "stream error"
    /\ At(trace, "ToolCallEnd") # {}
    /\ sendCount = 1

\* ---------------------------------------------------------------------- C19
\* Every Run that was started emits its terminal event and closes its
\* channel.
RunTerminates == (pc # "idle") ~> (pc = "closed" /\ nTerminal = 1)

\* No call is dropped: when the Run has ended without an error, every call
\* the provider started in the last turn has been carried out to its
\* tool-result (whether Execute ran it or executeTool rejected it).
NoStartedCallDropped ==
    (pc \in {"returned", "closed"} /\ At(trace, "AgentError") = {})
      => \A b \in At(trace, "ToolCallStart") :
            \E t \in At(trace, "ToolResult") : trace[t].id = trace[b].id

\* C19: Run never hangs and never silently drops a turn: provided every
\* stream closes, every Execute returns, every permission request is
\* answered or the context cancelled, and the consumer keeps reading, every
\* Run emits its terminal event and closes its channel, and every tool call
\* the provider started in a turn is either executed or the Run ends in
\* error.
C19_TerminatesNothingDropped ==
    /\ RunTerminates
    /\ []NoStartedCallDropped

\* ---------------------------------------------------------------------- C20
\* The tools a prompt names or describes.
NamedIn(prompt) == prompt.modeSection \cup SeqRange(prompt.available)

\* C20: in plan mode nothing sent to the provider - neither the tool
\* declarations nor the system prompt - names or describes a tool whose
\* RequiresPermission is true.
C20_PlanModeNeverNamesGatedTools ==
    (mode = "plan" /\ sendCount > 0) =>
       /\ \A i \in 1..Len(sentTools) : ~RequiresPermission(sentTools[i])
       /\ \A name \in NamedIn(sentPrompt) : ~RequiresPermission(name)

\* ---------------------------------------------------------------------- C21
\* The requests the TUI holds or is about to take.
InFlight == {permReq.req} \cup {requestCh[i].req : i \in 1..Len(requestCh)}

\* Every response channel carries at most one response in its life, and never
\* more than its buffer holds; a request the TUI holds or has yet to take has
\* not been answered, so the answer's send finds room; a request is in one
\* place only.
SingleUse ==
    /\ Len(respLog) = Len(respCh)
    /\ \A r \in 1..Len(respCh) :
         /\ respLog[r].sent <= 1
         /\ respLog[r].taken <= respLog[r].sent
         /\ Len(respCh[r]) = respLog[r].sent - respLog[r].taken
         /\ Len(respCh[r]) <= RespChCap
    /\ \A r \in InFlight \ {0} :
         /\ r \in 1..Len(respCh)
         /\ respLog[r].sent = 0
         /\ Len(respCh[r]) < RespChCap
    /\ \A i, j \in 1..Len(requestCh) : requestCh[i].req = requestCh[j].req => i = j
    /\ \A i \in 1..Len(requestCh) : requestCh[i].req # permReq.req

\* A step that sends on a response channel is the TUI answering the request
\* it displays: one response, on that request's channel, and the request is
\* forgotten.
UISendStep ==
    (\E r \in 1..Len(respLog) : respLog'[r].sent # respLog[r].sent) =>
       /\ permReq # NoRequest
       /\ permReq' = NoRequest
       /\ respCh'[permReq.req] = Append(respCh[permReq.req],
                                        respCh'[permReq.req][Len(respCh'[permReq.req])])
       /\ respCh'[permReq.req][Len(respCh'[permReq.req])] \in Responses
       /\ \A r \in 1..Len(respLog) :
            r # permReq.req => respCh'[r] = respCh[r] /\ respLog'[r] = respLog[r]

\* A step that receives from a response channel is the waiting Check taking
\* the answer to its own request, and returning.
CheckTakeStep ==
    (\E r \in 1..Len(respLog) : respLog'[r].taken # respLog[r].taken) =>
       /\ pc = "checkWait"
       /\ pc' # "checkWait"
       /\ respLog'[curReq].taken = 1
       /\ \A r \in 1..Len(respLog) :
            r # curReq => respCh'[r] = respCh[r] /\ respLog'[r] = respLog[r]

ConfigAt(epoch) == cfgLog[epoch]

\* The request a call builds from a configuration.
RequestOf(kind, cfg) ==
    IF kind = "SendMessage" THEN cfg ELSE Config(cfg.key, "")

\* Every call's request has the key and model id the provider had when the
\* call started, whatever was set afterwards.
RequestsKeepTheirConfig ==
    /\ cfgLog[Len(cfgLog)] = Config(apiKey, model)
    /\ \A i \in 1..Len(provCalls) :
         provCalls[i].req = RequestOf(provCalls[i].kind, ConfigAt(provCalls[i].epoch))

\* A setter changes its own field and nothing else of the provider, and no
\* step changes the request of a call already made.
SetterFrame ==
    /\ apiKey' # apiKey => model' = model /\ provCalls' = provCalls
    /\ model' # model => apiKey' = apiKey /\ provCalls' = provCalls
    /\ \A i \in 1..Len(provCalls) :
         /\ i <= Len(provCalls')
         /\ provCalls'[i].req = provCalls[i].req

SToolEvents == SAt("ToolCallStart") \cup SAt("ToolCallDelta") \cup SAt("ToolCallEnd")

\* C23: in the events of one stream, for every call id, one tool-call-start
\* comes first, then the tool-call-deltas, then exactly one tool-call-end: a
\* delta or an end carries the id of a start sent before it (never an empty
\* id), an id is started once, nothing with a call's id comes after its
\* end, and when the stream has ended every started id has its end.
C23_StartDeltasEnd ==
    /\ \A i \in SAt("ToolCallDelta") \cup SAt("ToolCallEnd") :
         /\ out[i].id # ""
         /\ \E b \in SAt("ToolCallStart") : b < i /\ out[b].id = out[i].id
    /\ \A b1, b2 \in SAt("ToolCallStart") : out[b1].id = out[b2].id => b1 = b2
    /\ \A e \in SAt("ToolCallEnd") :
         \A j \in SToolEvents : j > e => out[j].id # out[e].id
    /\ spc \in {"returned", "closed"} =>
         \A b \in SAt("ToolCallStart") :
            \E e \in SAt("ToolCallEnd") : e > b /\ out[e].id = out[b].id

\* ---------------------------------------------------------------------- C24
\* C24: a tool-call-start is sent for a provider item only when the item's
\* call id and tool name are both known (non-empty), and at most once per
\* item (the items of one stream have different call ids), on every path.
C24_StartOnlyWhenKnown ==
    \A b \in SAt("ToolCallStart") :
       /\ out[b].id # ""
       /\ out[b].name # ""
       /\ \A b2 \in SAt("ToolCallStart") : out[b2].id = out[b].id => b2 = b

\* ---------------------------------------------------------------------- C25
\* The keys of the agent's pendingCalls map: any ToolCallID a stream event
\* carries.
EventIds == CallIds \cup {""}

\* agent.go:156-208: runLoop's range over the stream's events from the i-th
\* on, with the pending calls and the ToolCalls recorded so far (each with
\* the place of the tool-call-end that finished it).
RECURSIVE rangeStreamCh(_, _, _, _)
rangeStreamCh(events, i, pending, calls) ==
    IF i > Len(events) THEN calls
    ELSE LET event == events[i]
         IN IF event.type = "ToolCallStart"
            THEN rangeStreamCh(events, i + 1,
                     [pending EXCEPT ![event.id] =
                         [present |-> TRUE, name |-> event.name, args |-> <<>>]],
                     calls)
            ELSE IF event.type = "ToolCallDelta" /\ pending[event.id].present
            THEN rangeStreamCh(events, i + 1,
                     [pending EXCEPT ![event.id].args = @ \o event.input], calls)
            ELSE IF event.type = "ToolCallEnd" /\ pending[event.id].present
            THEN rangeStreamCh(events, i + 1,
                     [pending EXCEPT ![event.id] = NoPending],
                     Append(calls,
                            [id |-> event.id, name |-> pending[event.id].name,
                             input |-> FinalInput(pending[event.id].args, event.input),
                             at |-> i]))
            ELSE IF event.type = "Error" THEN calls
            ELSE rangeStreamCh(events, i + 1, pending, calls)

\* The ToolCalls the agent records from the events the adapter has sent.
AgentToolCalls ==
    rangeStreamCh(out, 1, [c \in EventIds |-> NoPending], <<>>)

\* What a finished call carries: the payload of its completion signal if it
\* has one, otherwise the concatenation of the call's argument fragments.
PayloadOrDeltas(payload, deltas) == IF payload # <<>> THEN payload ELSE deltas

\* C25: when a call's completion signal carries a non-empty full argument
\* payload, the adapter's tool-call-end and the ToolCall the agent records
\* from it carry exactly that payload; when it carries none they carry the
\* concatenation of the call's argument deltas in arrival order.
C25_PayloadSupersedesDeltas ==
    /\ \A k \in 1..Len(argLog.ends) :
         LET e == argLog.ends[k]
         IN /\ e.at \in SAt("ToolCallEnd")
            /\ out[e.at].input = PayloadOrDeltas(e.payload, e.deltas)
    /\ \A i \in SAt("ToolCallEnd") : \E k \in 1..Len(argLog.ends) : argLog.ends[k].at = i
    /\ \A n \in 1..Len(AgentToolCalls) :
         \E k \in 1..Len(argLog.ends) :
            /\ argLog.ends[k].at = AgentToolCalls[n].at
            /\ AgentToolCalls[n].input =
                  PayloadOrDeltas(argLog.ends[k].payload, argLog.ends[k].deltas)

\* A call whose fragments were "x" and whose completion signal carried the
\* payload "F": the agent recorded it with "F".
C25_Witness ==
    \E k \in 1..Len(argLog.ends) :
       /\ argLog.ends[k].payload = <<"F">>
       /\ argLog.ends[k].deltas = <<"x">>
       /\ \E n \in 1..Len(AgentToolCalls) :
             /\ AgentToolCalls[n].at = argLog.ends[k].at
             /\ AgentToolCalls[n].input = <<"F">>

\* ---------------------------------------------------------------------- C26
\* The lines C26 names: blank, a comment, an event-type announcement, not a
\* data line, malformed JSON, a well-formed event of an unknown type.
IgnorableLine(v, l) ==
    \/ l = BlankLine
    \/ l.prefix = ":"
    \/ l.prefix = "event: "
    \/ l.prefix # "data: "
    \/ l.prefix = "data: " /\ l.data # "json" /\ ~(v = "chat" /\ l.data = "[DONE]")
    \/ l.prefix = "data: " /\ l.data = "json" /\ l.type \notin HandledTypes(v)

\* Reading such a line sends no event, changes no accumulation state, and
\* leaves the loop reading.
IgnoredLineStep ==
    (nWire' = nWire + 1 /\ IgnorableLine(variant, line')) =>
       /\ out' = out
       /\ sTerminal' = sTerminal
       /\ funcCalls' = funcCalls
       /\ spc = "scan" /\ spc' = "scan"

\* C26: a wire line that is blank, a comment, an event-type announcement,
\* not a data line, malformed JSON, or a well-formed event of an unknown
\* type produces no StreamEvent, leaves the per-item accumulation state
\* unchanged and does not stop the processing of later lines.
C26_IgnoredLinesChangeNothing ==
    /\ [](\A l \in OtherLines : IgnorableLine(variant, l) => Skipped(variant, l))
    /\ [][IgnoredLineStep]_vars

\* Malformed JSON was read while a call was being accumulated, and the loop
\* went on: the call's events were sent and the loop is still reading.
C26_Witness ==
    /\ line = Line("data: ", "{bad", "")
    /\ nWire = 3
    /\ spc = "scan"
    /\ PresentKeys # {}
    /\ SAt("ToolCallStart") # {}
    /\ SAt("ToolCallDelta") # {}

\* ---------------------------------------------------------------------- C27
\* The lines on which the adapter flushes the calls still in its map.
FlushLines == {DataLine("response.completed"), Line("data: ", "[DONE]", ""),
               DataLine("chunk")}

\* A flush sends the same events whatever the order in which the map is
\* ranged over: the events sent depend on the wire input only.
FlushStep ==
    (line' \in FlushLines /\ PresentKeys # {}
        /\ funcCalls' = [k \in ItemIds |-> NoCall]) =>
       \A o \in RangeOrders(PresentKeys) :
          \/ out' = out \o FlushEvents(o, funcCalls)
          \/ out' = out \o FlushEvents(o, funcCalls) \o <<SEv("Done", "", "", <<>>)>>

\* C27: determinism: for one fixed sequence of wire events the adapter sends
\* one fixed sequence of StreamEvents (and so the agent executes the tool
\* calls and raises the permission prompts in one fixed order), also when
\* several calls are still open at the completion and are flushed together.
C27_FlushIsDeterministic == [][FlushStep]_vars

\* ---------------------------------------------------------------------- C28
\* A request carries the caller's history followed by one assistant message
\* and one tool-role message per earlier turn, and the caller's slice is as
\* the caller made it.
RequestShape ==
    /\ history = <<HistoryMsg(UserMsg)>>
    /\ sendCount > 0 =>
         /\ Len(sentMessages) = Len(history) + 2 * (sendCount - 1)
         /\ SubSeq(sentMessages, 1, Len(history)) = history
         /\ \A k \in 1..(sendCount - 1) :
              /\ sentMessages[Len(history) + 2 * k - 1].role = "assistant"
              /\ sentMessages[Len(history) + 2 * k].role = "tool"

\* The request of the first turn carries the caller's history; the request
\* of a later turn is made when the turn before has its assistant message,
\* one result per call and its tool-role message, and carries the messages
\* of the request before followed by those two messages.
RequestStep ==
    (sendCount' = sendCount + 1) =>
       IF sendCount = 0
       THEN sentMessages' = history
       ELSE /\ Cardinality(PersistAt("assistant")) = 1
            /\ Cardinality(PersistAt("tool")) = 1
            /\ CountOf(trace, "ToolResult") = Len(toolCalls)
            /\ \A a \in PersistAt("assistant") : \A t \in PersistAt("tool") :
                 /\ a < t
                 /\ trace[a].data.calls = toolCalls
                 /\ Len(trace[t].data.results) = Len(toolCalls)
                 /\ sentMessages' = sentMessages \o
                       <<HistoryMsg(trace[a].data), HistoryMsg(trace[t].data)>>

\* C28: the request for turn k carries exactly the caller's initial history
\* followed, in order, by the assistant message and the aggregated tool-role
\* message of each of the turns 1..k-1; the provider call for turn k is made
\* only after all tool results of turn k-1 are collected; Run never modifies
\* the caller's history slice.
C28_RequestCarriesHistoryInOrder ==
    /\ []RequestShape
    /\ [][RequestStep]_vars

\* The third request of a Run: it carries the user message, the first
\* turn's assistant message (two calls) with its two results (one of them
\* an error), and the second turn's two messages (text and one call, its
\* result).
C28_Witness ==
    /\ family = "history"
    /\ sendCount = 3
    /\ Len(sentMessages) = 5
    /\ sentMessages[1] = UserMsg
    /\ Len(sentMessages[2].calls) = 2
    /\ Len(sentMessages[3].results) = 2
    /\ sentMessages[3].results[2].isError
    /\ sentMessages[4].content # <<>>
    /\ Len(sentMessages[4].calls) = 1
    /\ Len(sentMessages[5].results) = 1

\* The Run has been started and has sent no terminal event yet: its
\* goroutine is still calling the provider, reading a stream or running a
\* tool.
RunInFlight == pc \notin {"idle", "closed"} /\ nTerminal = 0
SetterStep == cfgLog' # cfgLog

\* C29: in the running application SetAPIKey and SetModel are never called
\* while a Run started earlier is still in flight, a Run the user has just
\* cancelled included.
C29_SettersOnlyBetweenRuns == [][SetterStep => ~RunInFlight]_vars

\* The messages the current turn has asked the caller to persist are
\* well-paired: each assistant message that carries tool calls is followed,
\* with no persisted message between them, by a tool-role message that holds
\* one result per call.
PairedTurn ==
    \A a \in PersistAt("assistant") :
       trace[a].data.calls # <<>> =>
          \E t \in PersistAt("tool") :
             /\ a < t
             /\ \A i \in At(trace, "PersistMessage") : ~(a < i /\ i < t)
             /\ Len(trace[t].data.results) = Len(trace[a].data.calls)
RunEnded == pc \in {"returned", "closed"}
TurnEndStep == (sendCount' = sendCount + 1 /\ sendCount > 0) => PairedTurn

\* C30: after any Run ends (done, error, cancellation or iteration cap) the
\* messages it asked the caller to persist are well-paired: every persisted
\* assistant message with tool calls is immediately followed by a persisted
\* tool-role message with one result per call. Stated turn by turn: a turn
\* is well-paired when the next request is made, and the last turn is
\* well-paired when the Run has ended.
C30_PersistedHistoryWellPaired ==
    /\ [](RunEnded => PairedTurn)
    /\ [][TurnEndStep]_vars

\* The Run's goroutine has not returned, or the TUI has not handled the
\* Run's terminal event yet.
Running(r) == runs[r].phase # "ended"
Undelivered(r) == Running(r) \/ runs[r].emitted \notin SeqRange(handled[r])
StartStep == Len(runs') > Len(runs) => \A r \in RunIds : ~Running(r)
StaleEventStep ==
    \A r \in RunIds :
       (r < Len(runs) /\ handled'[r] # handled[r]) => thinking' = thinking

\* C31: in the TUI at most one Run is in flight at any time: a Run is
\* started only when no earlier Run is still running, thinking is true in
\* every state in which a Run the TUI started has not delivered its
\* terminal event, and the events of an earlier Run never change the state
\* of a later Run.
C31_OneRunInFlight ==
    /\ [](/\ Cardinality({r \in RunIds : Running(r)}) <= 1
          /\ (\E r \in RunIds : Undelivered(r)) => thinking)
    /\ [][StartStep /\ StaleEventStep]_vars

\* The Check call that made the request is still in its second select and
\* has no answer yet.
Waiting(request) ==
    /\ request.req \in RunIds
    /\ runs[request.req].phase = "checkWait"
    /\ request.req \notin answered

\* C32: a permission dialog shown in the TUI belongs to a Check call that is
\* still waiting for its answer: a request whose Check has returned on
\* cancellation is not left in the request channel and is not displayed
\* afterwards.
C32_DialogBelongsToWaitingCheck ==
    /\ permReq # NoRequest => Waiting(permReq)
    /\ \A i \in 1..Len(requestCh) : Waiting(requestCh[i])

\* C33: the TUI applies the events of one Run in the order the agent sent
\* them: the first event, returned as the command's message, is handled
\* before any event the forwarding goroutine sends with program.Send, and
\* the forwarded events keep their order.
C33_EventsAppliedInOrder ==
    \A r \in RunIds :
       \A i, j \in 1..Len(handled[r]) : i < j => handled[r][i] < handled[r][j]

\* A permissionRequestMsg is on its way to Update.
RequestInTransit == \E msg \in tuiMsgs : msg.kind = "perm"

\* The dialog of a Check that is waiting in a Run that was not cancelled
\* leaves the screen only when the user answers it.
DialogKeptStep ==
    (Waiting(permReq) /\ runs[permReq.req].ctx = "live" /\ permReq' # permReq)
       => (permReq' = NoRequest /\ permReq.req \in answered')

\* C34: whenever the TUI has no pending permission dialog, a listener is
\* blocked receiving on the request channel (or the request it has just
\* taken is on its way to Update), so that every request published by Check
\* is turned into a dialog the user can answer: the dialog of a waiting
\* Check stays until the user has answered it.
C34_RequestsBecomeDialogs ==
    /\ [](permReq = NoRequest => listeners >= 1 \/ RequestInTransit)
    /\ [][DialogKeptStep]_vars

\* The number of input items the claim gives a message, and the number it
\* gives the first n messages of a history.
ItemCount(msg) ==
    IF msg.role \in {"user", "system"} THEN 1
    ELSE IF msg.role = "assistant"
    THEN (IF msg.content # <<>> THEN 1 ELSE 0) + Len(msg.calls)
    ELSE Len(msg.results)
RECURSIVE ItemsBefore(_, _)
ItemsBefore(messages, n) ==
    IF n = 0 THEN 0 ELSE ItemsBefore(messages, n - 1) + ItemCount(messages[n])

\* C35: buildInput maps the history to input items in order: a user message
\* to one user item; an assistant message to one assistant text item (only
\* when its content is non-empty) followed by one function_call item per
\* ToolCall in order, with its call id, name and raw argument text; a
\* tool-role message to one function_call_output item per ToolResult in
\* order, with its call id and output; a system-role message to a
\* developer-role item, the top-level instructions holding only the
\* request's system prompt.
C35_BuildInputPreservesOrder ==
    respReq.built =>
       LET messages == sendReq.messages
           input == respReq.input
       IN /\ respReq.instructions = sendReq.systemPrompt
          /\ Len(input) = ItemsBefore(messages, Len(messages))
          /\ \A n \in 1..Len(messages) :
                LET msg == messages[n]
                    at == ItemsBefore(messages, n - 1)
                    hasText == IF msg.role = "assistant" /\ msg.content # <<>>
                               THEN 1 ELSE 0
                IN /\ msg.role = "user" =>
                        /\ input[at + 1].keys = {"role", "content"}
                        /\ input[at + 1].role = "user"
                        /\ input[at + 1].content = msg.content
                   /\ msg.role = "system" =>
                        /\ input[at + 1].keys = {"role", "content"}
                        /\ input[at + 1].role = "developer"
                        /\ input[at + 1].content = msg.content
                   /\ hasText = 1 =>
                        /\ input[at + 1].keys = {"role", "content"}
                        /\ input[at + 1].role = "assistant"
                        /\ input[at + 1].content = msg.content
                   /\ msg.role = "assistant" =>
                        \A k \in 1..Len(msg.calls) :
                           /\ input[at + hasText + k].keys =
                                 {"type", "call_id", "name", "arguments"}
                           /\ input[at + hasText + k].type = "function_call"
                           /\ input[at + hasText + k].call_id = msg.calls[k].id
                           /\ input[at + hasText + k].name = msg.calls[k].name
                           /\ input[at + hasText + k].text = msg.calls[k].input
                   /\ msg.role = "tool" =>
                        \A k \in 1..Len(msg.results) :
                           /\ input[at + k].keys = {"type", "call_id", "output"}
                           /\ input[at + k].type = "function_call_output"
                           /\ input[at + k].call_id = msg.results[k].id
                           /\ input[at + k].text = msg.results[k].output

\* The body built for an assistant message with text and two calls followed
\* by the tool-role message with their two results.
C35_Witness ==
    /\ respReq.built
    /\ sendReq.systemPrompt = <<"p">>
    /\ Len(sendReq.messages) = 2
    /\ sendReq.messages[1].role = "assistant"
    /\ Len(sendReq.messages[1].calls) = 2
    /\ sendReq.messages[2].role = "tool"
    /\ Len(sendReq.messages[2].results) = 2
    /\ Len(respReq.input) = 5

\* How often a string occurs in a sequence.
Occurrences(strs, str) == Cardinality({i \in 1..Len(strs) : strs[i] = str})
AllowedPrefixes == {"gpt-", "o1", "o3", "o4", "chatgpt-"}
Allowed(id) == \E prefix \in AllowedPrefixes : HasPrefix(id, prefix)

\* C36: ListModels returns exactly the catalog's identifiers that start with
\* one of the allowed prefixes (gpt-, o1, o3, o4, chatgpt-), sorted
\* lexicographically ascending; a transport failure, a non-200 status or an
\* undecodable body gives an error and no list.
C36_ListModelsFiltersAndSorts ==
    listed.returned =>
       IF modelsResp.outcome = "ok"
       THEN /\ ~listed.err
            /\ \A id \in CatalogIds :
                  Occurrences(listed.models, id) =
                     IF Allowed(id) THEN Occurrences(modelsResp.data, id) ELSE 0
            /\ \A i, j \in 1..Len(listed.models) :
                  i < j => ~StringLess(listed.models[j], listed.models[i])
       ELSE listed.err /\ listed.models = <<>>

\* A catalog of three entries out of order, one of them not allowed, has
\* been listed.
C36_Witness ==
    /\ listed.returned
    /\ modelsResp = [outcome |-> "ok", data |-> <<"o4-mini", "o5", "gpt-4">>]
    /\ listed.models = <<"gpt-4", "o4-mini">>

\* The Register calls that were the first for their name, and the last
\* Register call for a name.
FirstCalls ==
    {i \in 1..Len(registered) :
        \A j \in 1..(i - 1) : registered[j].name # registered[i].name}
LastCall(name) ==
    CHOOSE i \in 1..Len(registered) :
       /\ registered[i].name = name
       /\ \A j \in (i + 1)..Len(registered) : registered[j].name # name

\* C37: after any sequence of Register calls All returns each registered
\* name exactly once, in the order of the names' first registrations;
\* registering a name again replaces the tool Get returns for it without
\* changing its position or adding a duplicate; the names of the order list
\* are the keys of the lookup table.
C37_RegistryKeepsInsertionOrder ==
    /\ Len(All) = Cardinality(FirstCalls)
    /\ \A i, j \in 1..Len(All) : i # j => All[i].name # All[j].name
    /\ \A i \in FirstCalls :
          All[Cardinality({j \in FirstCalls : j <= i})].name = registered[i].name
    /\ \A name \in RegNames :
          IF \E i \in 1..Len(registered) : registered[i].name = name
          THEN Get(name) = [tool |-> registered[LastCall(name)], ok |-> TRUE]
          ELSE ~Get(name).ok
    /\ \A i \in 1..Len(All) : All[i] = Get(All[i].name).tool
    /\ SeqRange(order) = DOMAIN tools

\* "ls", "bash", "ls" again with another implementation, then "view".
C37_Witness ==
    /\ registered = <<[name |-> "ls", impl |-> 1], [name |-> "bash", impl |-> 1],
                      [name |-> "ls", impl |-> 2], [name |-> "view", impl |-> 1]>>
    /\ All = <<[name |-> "ls", impl |-> 2], [name |-> "bash", impl |-> 1],
               [name |-> "view", impl |-> 1]>>

\* The newline-separated lines of the text by position: a line starts after
\* position b, where b is 0 or the position of a newline, and ends before
\* the next newline or at the end of the text.
LineStarts == {0} \cup {i \in 1..Len(text) : text[i] = "\n"}
LineEnd(b) ==
    IF \E i \in (b + 1)..Len(text) : text[i] = "\n"
    THEN (CHOOSE i \in (b + 1)..Len(text) :
             /\ text[i] = "\n"
             /\ \A j \in (b + 1)..(i - 1) : text[j] # "\n") - 1
    ELSE Len(text)
\* The cells of the positions in P.
RECURSIVE Cells(_)
Cells(P) ==
    IF P = {} THEN 0
    ELSE LET i == CHOOSE j \in P : TRUE
         IN  (IF text[i] = "CJK" THEN 2 ELSE IF text[i] = "a" THEN 1 ELSE 0)
             + Cells(P \ {i})
LineCells(b) == Cells((b + 1)..LineEnd(b))
\* ceil((w+1)/width): the least n with n * width >= w + 1.
RowsOf(b) ==
    IF LineCells(b) < wrapWidth THEN 1
    ELSE CHOOSE n \in 1..(LineCells(b) + 1) :
            /\ n * wrapWidth >= LineCells(b) + 1
            /\ (n - 1) * wrapWidth < LineCells(b) + 1
RECURSIVE SumRows(_)
SumRows(B) ==
    IF B = {} THEN 0
    ELSE LET b == CHOOSE c \in B : TRUE IN RowsOf(b) + SumRows(B \ {b})

ValueRows == displayLineCount(taValue, taWidth)

\* C39: after every Input.Update the height of the textarea is
\* displayLineCount(value, width) clamped to 1..maxInputHeight, so it is at
\* least the rows of the text while these are at most maxInputHeight; after
\* Reset the height is 1.
C39_HeightFitsText ==
    /\ lastOp = "update" =>
          /\ ValueRows < 1 => taHeight = 1
          /\ ValueRows \in 1..6 => taHeight = ValueRows
          /\ ValueRows > 6 => taHeight = 6
          /\ ValueRows <= 6 => taHeight >= ValueRows
    /\ lastOp = "reset" => taHeight = 1

\* Six one-cell runes at a textarea width of 1 need seven rows; the height
\* after the Update that typed the sixth is maxInputHeight.
C39_Witness ==
    /\ lastOp = "update"
    /\ taValue = <<"a", "a", "a", "a", "a", "a">>
    /\ taWidth = 1
    /\ ValueRows = 7
    /\ taHeight = 6
====
